---- MODULE Spec2Model ----
(***************************************************************************)
(* Verification model of the athena Wasm engine.                           *)
(*                                                                         *)
(*  Spec       the execution driver: athena_execute (src/athena.cpp) on    *)
(*             top of WabtEngine::execute (src/wabt.cpp), with the module  *)
(*             cache, re-entrant sub-calls and the exception-to-status     *)
(*             conversion.                                                 *)
(*  SpecOption the same driver behind athena_set_option.                   *)
(*  SpecDepth  the call-depth counter of the emitted calls (x86_64.hpp).   *)
(*  SpecStack  the native stack pointer across the lowering of an opcode.  *)
(*  SpecUpcall the transitions from the emitted code into host code.       *)
(*  SpecStore  the lowering of a store.                                    *)
(*  SpecWriter the writer object: code segment, relocations, fix-ups.      *)
(***************************************************************************)
EXTENDS Integers, Sequences, FiniteSets, TLC

(***************************************************************************)
(* Bounds of the driver model.                                             *)
(***************************************************************************)
NumDest == 2           \* destination addresses 1..NumDest
MaxNest == 2           \* nesting depth of invocations (parent + sub-call)
MaxInvocations == 2    \* invocations served by one instance in one run
MaxVal == 2            \* a memory cell / global holds 0..MaxVal

Dests == 1..NumDest
Val == 0..MaxVal

(***************************************************************************)
(* Contract codes.  A code is an index into Modules; the record says what  *)
(* the binary contains, as far as the driver looks at it.                  *)
(*   preamble, version : the 8 header bytes                                *)
(*   loads             : ReadBinaryInterp succeeds                         *)
(*   memCount, memExport, start, main : what execute() checks              *)
(*   data              : value the data segment writes to the cell, -1 if  *)
(*                       the module has no data segment                    *)
(*   globInit          : declared initial value of the mutable global      *)
(*   initOk            : Executor::Initialize succeeds                     *)
(*   body              : the instructions of main                          *)
(***************************************************************************)
Op(o, x) == [op |-> o, a |-> x]

Mod(b) == [preamble |-> TRUE, version |-> 1, loads |-> TRUE, memCount |-> 1,
           memExport |-> TRUE, start |-> FALSE, main |-> "func", data |-> -1,
           globInit |-> 0, initOk |-> TRUE, body |-> b]

ExcKinds == <<"InvalidMemoryAccess", "StaticModeViolation",
              "ArgumentOutOfRange", "InternalErrorException",
              "ContractValidationFailure", "VMTrap",
              "std_exception", "unknown">>

Modules == <<
  \* 1: counts its invocations in a global and returns the count
  Mod(<<Op("ginc", 0), Op("gload", 0), Op("finish", 1)>>),
  \* 2: returns the memory cell as it finds it
  Mod(<<Op("finish", 1)>>),
  \* 3: writes 1 and reverts with it
  Mod(<<Op("store", 1), Op("revert", 1)>>),
  \* 4: counts in the global, calls its own address, returns the count
  Mod(<<Op("ginc", 0), Op("gload", 0), Op("call", 0), Op("finish", 1)>>),
  \* 5: calls the other address and returns normally
  Mod(<<Op("call", 1)>>),
  \* 6: declares a start function
  [Mod(<<Op("store", 1), Op("finish", 1)>>) EXCEPT !.start = TRUE],
  \* 7: no export named main
  [Mod(<<Op("finish", 1)>>) EXCEPT !.main = "none"],
  \* 8: main is exported but is not a function
  [Mod(<<Op("finish", 1)>>) EXCEPT !.main = "global"],
  \* 9: burns 2 gas, sets the global, finishes
  Mod(<<Op("useGas", 2), Op("gset", 1), Op("finish", 1)>>),
  \* 10: unreachable
  Mod(<<Op("trap", 0)>>),
  \* 11..18: a host function raises ExcKinds[a]
  Mod(<<Op("throw", 1)>>), Mod(<<Op("throw", 2)>>),
  Mod(<<Op("throw", 3)>>), Mod(<<Op("throw", 4)>>),
  Mod(<<Op("throw", 5)>>), Mod(<<Op("throw", 6)>>),
  Mod(<<Op("throw", 7)>>), Mod(<<Op("throw", 8)>>),
  \* 19: not WebAssembly
  [Mod(<<>>) EXCEPT !.preamble = FALSE, !.loads = FALSE],
  \* 20: WebAssembly, version 2
  [Mod(<<>>) EXCEPT !.version = 2],
  \* 21: fails to decode
  [Mod(<<>>) EXCEPT !.loads = FALSE],
  \* 22: no memory
  [Mod(<<Op("finish", 1)>>) EXCEPT !.memCount = 0, !.memExport = FALSE],
  \* 23: memory not exported
  [Mod(<<Op("finish", 1)>>) EXCEPT !.memExport = FALSE],
  \* 24: data segment writes 1, main returns the cell
  [Mod(<<Op("finish", 1)>>) EXCEPT !.data = 1],
  \* 25: instantiation traps (segment out of bounds)
  [Mod(<<Op("finish", 1)>>) EXCEPT !.initOk = FALSE],
  \* 26: global declared with initial value 1, reverts with it
  [Mod(<<Op("gload", 0), Op("revert", 1)>>) EXCEPT !.globInit = 1],
  \* 27: finish with an empty return value
  Mod(<<Op("finish", 0)>>)
>>

Codes == 1..Len(Modules)

\* The bytes of code c when they travel as a return value (CREATE).
CodeBytes(c) == <<100 + c>>


(***************************************************************************)
(* State of the driver.                                                    *)
(***************************************************************************)
VARIABLES
  evm1mode,               \* athena_instance::evm1mode
  metering,               \* athena_instance::metering
  contract_preload_list,  \* athena_instance::contract_preload_list, 0 = no entry
  codeCache,              \* WabtEngine's cache: destination -> envCache_t
  frames,                 \* the invocations in progress, outermost first
  nInv,                   \* invocations started so far
  lastDone,               \* the invocation that returned last
  remembered,             \* one earlier invocation, kept for comparison
  engine,                 \* athena_instance::engine and the benchmarking flag
  lastOption              \* the call of athena_set_option that returned last

dvars == <<evm1mode, metering, contract_preload_list, codeCache, frames,
           nInv, lastDone, remembered, engine, lastOption>>

(***************************************************************************)
(* State of the machine code the x86-64 writer emits, while it runs.       *)
(***************************************************************************)
VARIABLES
  ebx,        \* the call-depth counter register (32 bits)
  callStack,  \* the JITted frames above the entry frame, innermost last
  jit,        \* "running" or the error handler control has reached
  budget,     \* the value ebx was given before entry
  lastCall,   \* the call or call_indirect executed last
  lastRet     \* the return executed last

depthVars == <<ebx, callStack, jit, budget, lastCall, lastRet>>

VARIABLES
  sp,         \* the native stack pointer (rsp) at an opcode boundary
  fbase,      \* rsp when the function body starts, after the prologue
  wdepth,     \* depth of the Wasm operand stack at that boundary
  lastOp      \* the opcode whose lowering ran last

stackVars == <<sp, fbase, wdepth, lastOp>>

VARIABLES
  cpu,        \* registers rdi, rsi, rax, rcx, rsp and the native stack stk
  ctx,        \* address of the host-state object the executor holds
  membase,    \* base address of the linear memory the executor holds
  pages,      \* size of the linear memory, in pages
  opnds,      \* Wasm operands on the native stack
  lastUpcall, \* the transition into host code executed last
  lastStore   \* the store into the linear memory executed last

upcallVars == <<cpu, ctx, membase, pages, opnds, lastUpcall, lastStore>>

VARIABLES
  arena,      \* the code segment of the growable allocator
  mcw,        \* the machine_code_writer object
  lastFix     \* the branch fix-up made last

writerVars == <<arena, mcw, lastFix>>

VARIABLES
  calc,       \* one lowering applied to drawn operands: input and outcome
  slots       \* the 8-byte slots of the operand stack, top last

lowerVars == <<calc, slots>>

vars == <<dvars, depthVars, stackVars, upcallVars, writerVars, lowerVars>>

\* helpers.h: the code starts with "\0asm" / carries the given version.
\* Code 0 stands for an empty byte string.
hasWasmPreamble(c) == c # 0 /\ Modules[c].preamble
hasWasmVersion(c, v) == c # 0 /\ Modules[c].version = v

\* eei.h: a default-constructed ExecutionResult.
ExecutionResult == [gasLeft |-> 0, returnValue |-> <<>>, isRevert |-> FALSE]

\* eei.h: the EthereumInterface constructor binds the result slot and sets
\* the starting gas.
EthereumInterface(msg) == [ExecutionResult EXCEPT !.gasLeft = msg.gas]

\* An envCache_t.  module_ = 0: no entry for this destination.
\*   owner : the interface object the host functions of env_ were bound to
\*           when the module was instantiated (depth of its invocation),
\*           0 once that object has been destroyed
\*   eei_  : the field envCache_t::eei_ (same encoding)
\*   mem, glob : the memory cell and the global held by env_
NoEntry == [module_ |-> 0, mem |-> 0, glob |-> 0, owner |-> 0, eei_ |-> 0]

NoSnap == [mem |-> 0, glob |-> 0, res |-> ExecutionResult]

(***************************************************************************)
(* exceptions.h and the handlers of athena_execute, in source order.       *)
(***************************************************************************)
AthenaExceptions == {"InternalErrorException", "VMTrap", "ArgumentOutOfRange",
                     "OutOfGas", "ContractValidationFailure",
                     "InvalidMemoryAccess", "EndExecution",
                     "StaticModeViolation"}

\* k is the dynamic type of the exception, t the type a handler names.
IsA(k, t) == \/ t = "..."
             \/ k = t
             \/ t = "exception" /\ k \in AthenaExceptions \cup {"std_exception"}

\* The handlers without the two that catch everything else.
HandlersWithoutCatchAll == <<
  <<"EndExecution", "INTERNAL_ERROR">>,
  <<"VMTrap", "FAILURE">>,
  <<"ArgumentOutOfRange", "ARGUMENT_OUT_OF_RANGE">>,
  <<"OutOfGas", "OUT_OF_GAS">>,
  <<"ContractValidationFailure", "CONTRACT_VALIDATION_FAILURE">>,
  <<"InvalidMemoryAccess", "INVALID_MEMORY_ACCESS">>,
  <<"StaticModeViolation", "STATIC_MODE_VIOLATION">>,
  <<"InternalErrorException", "INTERNAL_ERROR">> >>

Handlers == <<
  <<"EndExecution", "INTERNAL_ERROR">>,
  <<"VMTrap", "FAILURE">>,
  <<"ArgumentOutOfRange", "ARGUMENT_OUT_OF_RANGE">>,
  <<"OutOfGas", "OUT_OF_GAS">>,
  <<"ContractValidationFailure", "CONTRACT_VALIDATION_FAILURE">>,
  <<"InvalidMemoryAccess", "INVALID_MEMORY_ACCESS">>,
  <<"StaticModeViolation", "STATIC_MODE_VIOLATION">>,
  <<"InternalErrorException", "INTERNAL_ERROR">>,
  <<"exception", "INTERNAL_ERROR">>,
  <<"...", "INTERNAL_ERROR">> >>

RECURSIVE CatchFrom(_, _)
CatchFrom(k, i) ==
  IF i > Len(Handlers) THEN "ESCAPED"
  ELSE IF IsA(k, Handlers[i][1]) THEN Handlers[i][2]
  ELSE CatchFrom(k, i + 1)

Catch(k) == CatchFrom(k, 1)

\* evmc_result after memset(&ret, 0, ...): status 0 is EVMC_SUCCESS.
ZeroResult == [status |-> "SUCCESS", gas_left |-> 0, output |-> <<>>]

Thrown(k) == [tag |-> "throw", exc |-> k]


(***************************************************************************)
(* athena.cpp: system contracts.  The host's answer to a system-contract   *)
(* call is an input: ans = [status, out], out a code (0: empty output).    *)
(***************************************************************************)
SysAnswers == {[status |-> st, out |-> o] :
                 st \in {"SUCCESS", "FAILURE"}, o \in {0, 1, 19, 20}}
NoAnswer == [status |-> "FAILURE", out |-> 0]

sentinelAddress == 10
evm2wasmAddress == 11
runevmAddress == 12

\* One call of a system contract as the host sees it: the contract, the
\* input it is given, and the status and output that come back.
SysCall(contract, input, ans) ==
  [contract |-> contract, input |-> input, status |-> ans.status,
   out |-> IF ans.status = "SUCCESS" THEN ans.out ELSE 0]

\* The system-contract calls made on the way to the outcome r, in order.
SysOf(r) == IF "sys" \in DOMAIN r THEN r.sys ELSE <<>>

callSystemContract(ans) ==
  [status |-> ans.status,
   ret |-> IF ans.status = "SUCCESS" THEN ans.out ELSE 0]

sentinel(ans) ==
  LET r == callSystemContract(ans)
  IN IF r.status # "SUCCESS" THEN Thrown("ContractValidationFailure")
     ELSE [tag |-> "ok", ret |-> r.ret]

evm2wasm(ans) ==
  LET r == callSystemContract(ans)
  IN IF r.status # "SUCCESS" THEN Thrown("ContractValidationFailure")
     ELSE [tag |-> "ok", ret |-> r.ret]

\* locallyExecuteSystemContract runs the preloaded runevm contract on a
\* fresh engine; its outcome is the input ans.
runevm(ans) ==
  IF ans.status # "SUCCESS" THEN Thrown("ContractValidationFailure")
  ELSE IF ans.out = 0 THEN Thrown("ContractValidationFailure")
  ELSE IF ~hasWasmPreamble(ans.out) THEN Thrown("ContractValidationFailure")
  ELSE [tag |-> "ok", ret |-> ans.out]

(***************************************************************************)
(* athena_execute, from the entry to the call of the engine                *)
(* (athena.cpp 258-340).  The result says how this part ends:              *)
(*   "return"  early return with a status                                  *)
(*   "throw"   an exception, converted by the handlers                     *)
(*   "result"  CREATE: the ExecutionResult built without the engine        *)
(*   "engine"  engine.execute is called with run_code                      *)
(***************************************************************************)
\* athena_translate in which reject raises the validation exception.
athena_translate_reject_throws(run_code, e1) ==
  IF evm1mode \in {"reject", "fallback"}
  THEN Thrown("ContractValidationFailure")
  ELSE [tag |-> "ok", ret |-> e1.out, meter |-> TRUE]

athena_translate(run_code, e1) ==
  CASE evm1mode = "evm2wasm" ->
         LET r == evm2wasm(e1)
         IN IF r.tag = "throw" THEN r
            ELSE IF r.ret = 0 THEN Thrown("ContractValidationFailure")
            ELSE [tag |-> "ok", ret |-> r.ret, meter |-> TRUE]
    [] evm1mode = "fallback" -> [tag |-> "return", status |-> "REJECTED"]
    [] evm1mode = "reject" -> [tag |-> "return", status |-> "FAILURE"]
    [] evm1mode = "runevm" ->
         LET r == runevm(e1)
         IN IF r.tag = "throw" THEN r
            ELSE [tag |-> "ok", ret |-> r.ret, meter |-> FALSE]

\* athena_prefix in which a creation with input data is accepted.
athena_prefix_accepts_input(msg, code, rev, e1, s1) ==
  IF rev # "BYZANTIUM" THEN Thrown("InternalErrorException")
  ELSE IF msg.gas < 0 THEN Thrown("InternalErrorException")
  ELSE
    LET preload == contract_preload_list[msg.dest]
        run0 == IF preload # 0 THEN preload ELSE code
        isWasm == hasWasmPreamble(run0)
        conv == IF isWasm THEN [tag |-> "ok", ret |-> run0, meter |-> TRUE]
                ELSE athena_translate(run0, e1)
        tr == IF isWasm THEN <<>>
              ELSE IF evm1mode = "evm2wasm"
                THEN <<SysCall(evm2wasmAddress, run0, e1)>>
              ELSE IF evm1mode = "runevm"
                THEN <<SysCall(runevmAddress,
                              contract_preload_list[runevmAddress], e1)>>
              ELSE <<>>
    IN IF conv.tag # "ok" THEN conv @@ [sys |-> tr]
       ELSE IF ~hasWasmVersion(conv.ret, 1)
         THEN Thrown("ContractValidationFailure") @@ [sys |-> tr]
       ELSE
         LET metered == msg.kind = "CREATE" /\ isWasm /\ metering
             met == IF metered THEN sentinel(s1)
                    ELSE [tag |-> "ok", ret |-> conv.ret]
             log == IF metered
                    THEN tr \o <<SysCall(sentinelAddress, conv.ret, s1)>>
                    ELSE tr
             end ==
               IF met.tag = "throw" THEN met
               ELSE IF /\ msg.kind = "CREATE" /\ isWasm
                       /\ ~(hasWasmPreamble(met.ret)
                            /\ hasWasmVersion(met.ret, 1))
                 THEN Thrown("ContractValidationFailure")
               ELSE IF msg.kind = "CREATE"
                 THEN IF FALSE
                      THEN Thrown("ContractValidationFailure")
                      ELSE [tag |-> "result",
                            result |-> [gasLeft |-> msg.gas,
                                        isRevert |-> FALSE,
                                        returnValue |-> CodeBytes(met.ret)]]
               ELSE [tag |-> "engine", run_code |-> met.ret,
                     meterInterfaceGas |-> conv.meter]
         IN end @@ [sys |-> log]

athena_prefix(msg, code, rev, e1, s1) ==
  IF rev # "BYZANTIUM" THEN Thrown("InternalErrorException")
  ELSE IF msg.gas < 0 THEN Thrown("InternalErrorException")
  ELSE
    LET preload == contract_preload_list[msg.dest]
        run0 == IF preload # 0 THEN preload ELSE code
        isWasm == hasWasmPreamble(run0)
        conv == IF isWasm THEN [tag |-> "ok", ret |-> run0, meter |-> TRUE]
                ELSE athena_translate(run0, e1)
        tr == IF isWasm THEN <<>>
              ELSE IF evm1mode = "evm2wasm"
                THEN <<SysCall(evm2wasmAddress, run0, e1)>>
              ELSE IF evm1mode = "runevm"
                THEN <<SysCall(runevmAddress,
                              contract_preload_list[runevmAddress], e1)>>
              ELSE <<>>
    IN IF conv.tag # "ok" THEN conv @@ [sys |-> tr]
       ELSE IF ~hasWasmVersion(conv.ret, 1)
         THEN Thrown("ContractValidationFailure") @@ [sys |-> tr]
       ELSE
         LET metered == msg.kind = "CREATE" /\ isWasm /\ metering
             met == IF metered THEN sentinel(s1)
                    ELSE [tag |-> "ok", ret |-> conv.ret]
             log == IF metered
                    THEN tr \o <<SysCall(sentinelAddress, conv.ret, s1)>>
                    ELSE tr
             end ==
               IF met.tag = "throw" THEN met
               ELSE IF /\ msg.kind = "CREATE" /\ isWasm
                       /\ ~(hasWasmPreamble(met.ret)
                            /\ hasWasmVersion(met.ret, 1))
                 THEN Thrown("ContractValidationFailure")
               ELSE IF msg.kind = "CREATE"
                 THEN IF msg.input_size # 0
                      THEN Thrown("ContractValidationFailure")
                      ELSE [tag |-> "result",
                            result |-> [gasLeft |-> msg.gas,
                                        isRevert |-> FALSE,
                                        returnValue |-> CodeBytes(met.ret)]]
               ELSE [tag |-> "engine", run_code |-> met.ret,
                     meterInterfaceGas |-> conv.meter]
         IN end @@ [sys |-> log]

(***************************************************************************)
(* athena_execute, from the result of the engine to the return             *)
(* (athena.cpp 339-411).  out is "throw" or "result".                      *)
(***************************************************************************)
\* athena_copy in which the return value is never metered.
athena_copy_unmetered(msg, result, s2) ==
  LET rv == result.returnValue
      c == IF Len(rv) > 0 /\ rv[1] > 100 THEN rv[1] - 100 ELSE 0
      plain == [tag |-> "ok", output |-> rv]
  IN IF Len(rv) > 0 /\ msg.kind = "CREATE" /\ ~result.isRevert
        /\ hasWasmPreamble(c)
     THEN IF ~hasWasmVersion(c, 1) THEN Thrown("ContractValidationFailure")
          ELSE LET m == IF FALSE THEN sentinel(s2)
                        ELSE [tag |-> "ok", ret |-> c]
                   log == IF FALSE THEN <<SysCall(sentinelAddress, c, s2)>>
                          ELSE <<>>
                   end ==
                     IF m.tag = "throw" THEN m
                     ELSE IF ~(hasWasmPreamble(m.ret)
                               /\ hasWasmVersion(m.ret, 1))
                       THEN Thrown("ContractValidationFailure")
                     ELSE [tag |-> "ok", output |-> CodeBytes(m.ret)]
               IN end @@ [sys |-> log]
     ELSE plain

athena_copy(msg, result, s2) ==
  LET rv == result.returnValue
      c == IF Len(rv) > 0 /\ rv[1] > 100 THEN rv[1] - 100 ELSE 0
      plain == [tag |-> "ok", output |-> rv]
  IN IF Len(rv) > 0 /\ msg.kind = "CREATE" /\ ~result.isRevert
        /\ hasWasmPreamble(c)
     THEN IF ~hasWasmVersion(c, 1) THEN Thrown("ContractValidationFailure")
          ELSE LET m == IF metering THEN sentinel(s2)
                        ELSE [tag |-> "ok", ret |-> c]
                   log == IF metering THEN <<SysCall(sentinelAddress, c, s2)>>
                          ELSE <<>>
                   end ==
                     IF m.tag = "throw" THEN m
                     ELSE IF ~(hasWasmPreamble(m.ret)
                               /\ hasWasmVersion(m.ret, 1))
                       THEN Thrown("ContractValidationFailure")
                     ELSE [tag |-> "ok", output |-> CodeBytes(m.ret)]
               IN end @@ [sys |-> log]
     ELSE plain

\* athena_return with handlers that report the gas of the message.
athena_return_keeps_gas(msg, out, s2) ==
  IF out.tag = "return" THEN [ZeroResult EXCEPT !.status = out.status]
  ELSE IF out.tag = "throw"
    THEN [ZeroResult EXCEPT !.status = Catch(out.exc), !.gas_left = msg.gas]
  ELSE [status |-> IF out.result.isRevert THEN "REVERT" ELSE "SUCCESS",
        gas_left |-> out.result.gasLeft,
        output |-> out.result.returnValue]

athena_return(msg, out, s2) ==
  IF out.tag = "return" THEN [ZeroResult EXCEPT !.status = out.status]
  ELSE IF out.tag = "throw" THEN [ZeroResult EXCEPT !.status = Catch(out.exc)]
  ELSE IF msg.kind # "CREATE" /\ out.result.gasLeft < 0
    THEN [ZeroResult EXCEPT !.status = Catch("InternalErrorException")]
  ELSE LET cp == athena_copy(msg, out.result, s2)
       IN IF cp.tag = "throw"
          THEN [ZeroResult EXCEPT !.status = Catch(cp.exc)]
          ELSE [status |-> IF out.result.isRevert THEN "REVERT" ELSE "SUCCESS",
                gas_left |-> out.result.gasLeft,
                output |-> cp.output]

\* The exception, if any, that ends the invocation.
athena_raised(msg, out, s2) ==
  IF out.tag = "return" THEN "none"
  ELSE IF out.tag = "throw" THEN out.exc
  ELSE IF msg.kind # "CREATE" /\ out.result.gasLeft < 0
    THEN "InternalErrorException"
  ELSE LET cp == athena_copy(msg, out.result, s2)
       IN IF cp.tag = "throw" THEN cp.exc ELSE "none"

\* The system-contract calls of the invocation from the outcome out on,
\* in order.
athena_syscalls(msg, out, s2) ==
  SysOf(out) \o
    (IF out.tag \in {"return", "throw"} THEN <<>>
     ELSE IF msg.kind # "CREATE" /\ out.result.gasLeft < 0 THEN <<>>
     ELSE SysOf(athena_copy(msg, out.result, s2)))


(***************************************************************************)
(* WabtEngine::execute, from the entry to the start of main                *)
(* (wabt.cpp 724-789).  d is the depth of the invocation, which identifies *)
(* its stack objects interf and result.                                    *)
(***************************************************************************)

\* instantiation(): the host functions are bound to envPtr->eei_ as it is
\* when the module is instantiated; ReadBinaryInterp creates the memory
\* (zero pages) and the globals (declared initial values) in envPtr->env_.
instantiation(code, eei) ==
  [module_ |-> code, mem |-> 0, glob |-> Modules[code].globInit,
   owner |-> eei, eei_ |-> eei]

\* LoadOrGet in which a cached module is used only for the code it was
\* decoded from.
LoadOrGet_by_code(cache, d, msg, code) ==
  IF cache[msg.dest].module_ # code
  THEN IF Modules[code].loads
       THEN LET e == instantiation(code, d)
            IN [cache |-> [cache EXCEPT ![msg.dest] = e], env |-> e]
       ELSE [cache |-> cache, env |-> NoEntry]
  ELSE LET e == [cache[msg.dest] EXCEPT !.eei_ = d]
       IN [cache |-> [cache EXCEPT ![msg.dest] = e], env |-> e]

\* wabt.cpp 738-757: cache lookup by destination, load on a miss.
\* The result is the cache after it and the envCache_t in use
\* (module_ = 0: the module failed to load, nothing was inserted).
LoadOrGet(cache, d, msg, code) ==
  IF cache[msg.dest].module_ = 0
  THEN IF Modules[code].loads
       THEN LET e == instantiation(code, d)
            IN [cache |-> [cache EXCEPT ![msg.dest] = e], env |-> e]
       ELSE [cache |-> cache, env |-> NoEntry]
  ELSE LET e == [cache[msg.dest] EXCEPT !.eei_ = d]
       IN [cache |-> [cache EXCEPT ![msg.dest] = e], env |-> e]

\* The checks without the one on the start function.
ValidateNoStartCheck(env) ==
  LET m == Modules[env.module_]
  IN IF env.module_ = 0 THEN "ContractValidationFailure"
     ELSE IF m.memCount # 1 THEN "ContractValidationFailure"
     ELSE IF ~m.memExport THEN "ContractValidationFailure"
     ELSE IF m.main = "none" THEN "ContractValidationFailure"
     ELSE IF m.main # "func" THEN "ContractValidationFailure"
     ELSE "none"

\* wabt.cpp 760-775: the checks before main is run.
Validate(env) ==
  LET m == Modules[env.module_]
  IN IF env.module_ = 0 THEN "ContractValidationFailure"
     ELSE IF m.memCount # 1 THEN "ContractValidationFailure"
     ELSE IF ~m.memExport THEN "ContractValidationFailure"
     ELSE IF m.start THEN "ContractValidationFailure"
     ELSE IF m.main = "none" THEN "ContractValidationFailure"
     ELSE IF m.main # "func" THEN "ContractValidationFailure"
     ELSE "none"

\* wabt.cpp 788: Executor::Initialize copies the data segments into the
\* memory and runs the start function, if the module has one.
Initialize(env) ==
  LET m == Modules[env.module_]
  IN [env |-> IF m.data >= 0 /\ m.initOk THEN [env EXCEPT !.mem = m.data]
              ELSE env,
      ok |-> m.initOk,
      ranStart |-> m.initOk /\ m.start]

\* The whole entry: [cache, tag "throw"/"run", exc, module, ran].
EngineEnter(cache, d, msg, code) ==
  LET lg == LoadOrGet(cache, d, msg, code)
      v == Validate(lg.env)
      ini == Initialize(lg.env)
  IN IF v # "none"
     THEN [cache |-> lg.cache, tag |-> "throw", exc |-> v,
           module |-> lg.env.module_, ran |-> FALSE]
     ELSE IF ~ini.ok
     THEN [cache |-> [lg.cache EXCEPT ![msg.dest] = ini.env],
           tag |-> "throw", exc |-> "VMTrap",
           module |-> lg.env.module_, ran |-> FALSE]
     ELSE [cache |-> [lg.cache EXCEPT ![msg.dest] = ini.env],
           tag |-> "run", exc |-> "none",
           module |-> lg.env.module_, ran |-> ini.ranStart]

\* The stack objects of the invocation at depth d go out of scope.
Release(cache, d) ==
  [a \in Dests |->
     [cache[a] EXCEPT !.owner = IF @ = d THEN 0 ELSE @,
                      !.eei_ = IF @ = d THEN 0 ELSE @]]

(***************************************************************************)
(* Messages and invocations.                                               *)
(***************************************************************************)
Msg(k, g, a, n) == [kind |-> k, gas |-> g, dest |-> a, input_size |-> n]
In(m, c, r) == [msg |-> m, code |-> c, rev |-> r]

\* The arguments of athena_execute that are tried: every code called at
\* every destination, calls with too little and with negative gas,
\* creations with and without input, and a revision other than Byzantium.
Inputs ==
  {In(Msg("CALL", 3, a, 0), c, "BYZANTIUM") : a \in Dests, c \in Codes}
  \cup {In(Msg("CALL", g, 1, 0), 9, "BYZANTIUM") : g \in {-1, 1}}
  \cup {In(Msg("CREATE", 3, 1, n), c, "BYZANTIUM") :
          n \in {0, 1}, c \in {1, 19, 20}}
  \cup {In(Msg("CALL", 3, 1, 0), 1, "FRONTIER")}

NoKey == [code |-> 0, msg |-> [kind |-> "CALL", gas |-> 0, dest |-> 1,
                               input_size |-> 0], rev |-> "BYZANTIUM"]
NoDone == [valid |-> FALSE, key |-> NoKey, ret |-> ZeroResult,
           exc |-> "none", ended |-> "none", endVal |-> <<>>,
           engine |-> FALSE, module |-> 0, ran |-> FALSE, depth |-> 0,
           hit |-> FALSE, sys |-> <<>>]
NoMemo == [valid |-> FALSE, key |-> NoKey, ret |-> ZeroResult]

\* The op main is about to execute; "end" past the last instruction.
CurOp(f) ==
  LET b == Modules[f.module].body
  IN IF f.pc > Len(b) THEN Op("end", 0) ELSE b[f.pc]

Top == frames[Len(frames)]

\* The parent continues after the host callback that made the sub-call.
Resume(below) ==
  [below EXCEPT ![Len(below)] = [@ EXCEPT !.pc = @ + 1, !.resumed = TRUE]]

\* An invocation returns to its caller with the evmc_result ret.
Return(cache, below, d, info) ==
  /\ codeCache' = Release(cache, d)
  /\ frames' = IF below = <<>> THEN <<>> ELSE Resume(below)
  /\ lastDone' = [info EXCEPT !.valid = TRUE, !.depth = d]
  /\ remembered' =
       IF /\ ~remembered.valid
          /\ info.engine /\ info.module = info.key.code
          /\ \A i \in 1..Len(Modules[info.key.code].body) :
                Modules[info.key.code].body[i].op # "call"
       THEN [valid |-> TRUE, key |-> info.key, ret |-> info.ret]
       ELSE remembered


(***************************************************************************)
(* athena.cpp: options.  An option name is a string of characters (the     *)
(* code takes it apart with strcmp, strncmp, find and substr); a value is  *)
(* compared as a whole.                                                    *)
(***************************************************************************)

\* The keys contract_preload_list can get in this model.
PreloadAddrs == Dests \cup {sentinelAddress, evm2wasmAddress, runevmAddress}

evm1mode_options == {"reject", "fallback", "evm2wasm", "runevm"}

\* The registered backends of a build with H_WABT alone.
wasm_engine_map == {"wabt"}

\* helpers.h: the bytes a string of hex digits stands for; empty when the
\* string is not made of pairs of hex digits.
parseHexString(s) ==
  LET digits == <<"0", "1", "2", "3", "4", "5", "6", "7", "8", "9",
                  "a", "b", "c", "d", "e", "f">>
      val(c) == (CHOOSE i \in 1..16 : digits[i] = c) - 1
      isHex(c) == \E i \in 1..16 : digits[i] = c
  IN IF Len(s) % 2 # 0 \/ \E i \in 1..Len(s) : ~isHex(s[i]) THEN <<>>
     ELSE [i \in 1..(Len(s) \div 2) |->
             16 * val(s[2 * i - 1]) + val(s[2 * i])]

\* helpers.h: the contents of the file (a code; 0: empty or unreadable).
loadFileContents(value) ==
  CASE value = "meter.wasm" -> 1
    [] value = "evm.bin" -> 19
    [] OTHER -> 0

\* athena_parse_sys_option that stores the contents before it looks at
\* their size.
athena_parse_sys_option_stores_first(name, value, list) ==
  LET rest == SubSeq(name, 5, Len(name))
      address ==
        CASE rest = <<"s", "e", "n", "t", "i", "n", "e", "l">>
               -> sentinelAddress
          [] rest = <<"e", "v", "m", "2", "w", "a", "s", "m">>
               -> evm2wasmAddress
          [] rest = <<"r", "u", "n", "e", "v", "m">> -> runevmAddress
          [] OTHER -> 1
      contents == loadFileContents(value)
  IN [ok |-> contents # 0, list |-> [list EXCEPT ![address] = contents]]

\* athena_parse_sys_option works on the preload list of the instance:
\* [ok, list], list the preload list after it.
\* An address is the number its 20 bytes stand for; the inputs keep the
\* first 19 bytes zero.
athena_parse_sys_option(name, value, list) ==
  LET rest == SubSeq(name, 5, Len(name))
      isHexName == Len(rest) >= 2 /\ SubSeq(rest, 1, 2) = <<"0", "x">>
      ret == parseHexString(SubSeq(rest, 3, Len(rest)))
      alias ==
        CASE rest = <<"s", "e", "n", "t", "i", "n", "e", "l">>
               -> sentinelAddress
          [] rest = <<"e", "v", "m", "2", "w", "a", "s", "m">>
               -> evm2wasmAddress
          [] rest = <<"r", "u", "n", "e", "v", "m">> -> runevmAddress
          [] OTHER -> 0
      address == IF isHexName THEN ret[20] ELSE alias
      contents == loadFileContents(value)
      no == [ok |-> FALSE, list |-> list]
  IN IF isHexName /\ ret = <<>> THEN no
     ELSE IF isHexName /\ Len(ret) # 20 THEN no
     ELSE IF ~isHexName /\ alias = 0 THEN no
     ELSE IF contents = 0 THEN no
     ELSE [ok |-> TRUE, list |-> [list EXCEPT ![address] = contents]]

\* The part of the instance athena_set_option works on.
Config == [evm1mode |-> evm1mode, metering |-> metering, engine |-> engine,
           list |-> contract_preload_list]

\* athena_set_option in which metering "false" clears the flag.
athena_set_option_false_clears(name, value, c) ==
  IF name = <<"m", "e", "t", "e", "r", "i", "n", "g">>
       /\ value \in {"true", "false"}
  THEN [result |-> "SUCCESS",
        config |-> [c EXCEPT !.metering = (value = "true")]]
  ELSE [result |-> "INVALID_NAME", config |-> c]

\* athena_set_option(name, value) on the configuration c: the result and
\* the configuration after it.  A new engine object differs from the one
\* it replaces.
athena_set_option(name, value, c) ==
  LET same(r) == [result |-> r, config |-> c]
  IN IF name = <<"e", "v", "m", "1", "m", "o", "d", "e">>
     THEN IF value \in evm1mode_options
          THEN [result |-> "SUCCESS", config |-> [c EXCEPT !.evm1mode = value]]
          ELSE same("INVALID_VALUE")
     ELSE IF name = <<"m", "e", "t", "e", "r", "i", "n", "g">>
     THEN IF value = "true"
          THEN [result |-> "SUCCESS", config |-> [c EXCEPT !.metering = TRUE]]
          ELSE IF value # "false" THEN same("INVALID_VALUE")
          ELSE same("SUCCESS")
     ELSE IF name = <<"b", "e", "n", "c", "h", "m", "a", "r", "k">>
     THEN IF value = "true"
          THEN [result |-> "SUCCESS",
                config |-> [c EXCEPT !.engine.benchmarking = TRUE]]
          ELSE same("INVALID_VALUE")
     ELSE IF name = <<"e", "n", "g", "i", "n", "e">>
     THEN IF value \in wasm_engine_map
          THEN [result |-> "SUCCESS",
                config |-> [c EXCEPT !.engine.object = 3 - @]]
          ELSE same("INVALID_VALUE")
     ELSE IF Len(name) >= 4 /\ SubSeq(name, 1, 4) = <<"s", "y", "s", ":">>
     THEN LET r == athena_parse_sys_option(name, value, c.list)
          IN [result |-> IF r.ok THEN "SUCCESS" ELSE "INVALID_VALUE",
              config |-> [c EXCEPT !.list = r.list]]
     ELSE same("INVALID_NAME")

\* The option names and values that are tried.
OptionNames ==
  LET sys == <<"s", "y", "s", ":">>
      hex(lo) == sys \o <<"0", "x">> \o [i \in 1..38 |-> "0"] \o lo
  IN {<<"e", "v", "m", "1", "m", "o", "d", "e">>,
      <<"m", "e", "t", "e", "r", "i", "n", "g">>,
      <<"b", "e", "n", "c", "h", "m", "a", "r", "k">>,
      <<"e", "n", "g", "i", "n", "e">>,
      sys \o <<"s", "e", "n", "t", "i", "n", "e", "l">>,
      sys \o <<"r", "u", "n", "e", "v", "m">>,
      sys \o <<"e", "v", "m">>, sys,
      hex(<<"0", "1">>), hex(<<"0", "c">>), hex(<<"0">>), hex(<<"0", "g">>),
      sys \o <<"0", "x", "0", "1">>,
      <<"s", "y", "s">>, <<"e", "v", "m", "1", "m", "o", "d", "e", "s">>,
      <<"m", "e", "t", "e", "r">>, <<>>}

OptionValues == evm1mode_options \cup wasm_engine_map
                  \cup {"true", "false", "meter.wasm", "evm.bin", ""}

NoOption == [result |-> "none", name |-> <<>>, value |-> "",
             before |-> [evm1mode |-> "reject", metering |-> FALSE,
                         engine |-> [object |-> 1, benchmarking |-> FALSE],
                         list |-> [a \in PreloadAddrs |-> 0]]]

(***************************************************************************)
(* Actions of the driver.                                                  *)
(***************************************************************************)
DriverInit ==
  /\ evm1mode = "reject"
  /\ metering = FALSE
  /\ contract_preload_list = [a \in PreloadAddrs |-> 0]
  /\ engine = [object |-> 1, benchmarking |-> FALSE]
  /\ lastOption = NoOption
  /\ codeCache = [a \in Dests |-> NoEntry]
  /\ frames = <<>>
  /\ nInv = 0
  /\ lastDone = NoDone
  /\ remembered = NoMemo

Info(msg, code, rev, ret, exc, ended, endVal, viaEngine, module, ran, hit, sys) ==
  [valid |-> TRUE, key |-> [code |-> code, msg |-> msg, rev |-> rev],
   ret |-> ret,
   exc |-> exc, ended |-> ended, endVal |-> endVal, engine |-> viaEngine,
   module |-> module, ran |-> ran, depth |-> 0, hit |-> hit, sys |-> sys]

\* athena_execute is entered with (msg, code, rev) while the invocations
\* below are suspended; it runs until main starts or until it returns.
Enter(below, msg, code, rev) ==
  LET d == Len(below) + 1
      wasm == hasWasmPreamble(IF contract_preload_list[msg.dest] # 0
                              THEN contract_preload_list[msg.dest] ELSE code)
  IN
  \E e1 \in (IF ~wasm /\ evm1mode \in {"evm2wasm", "runevm"}
             THEN SysAnswers ELSE {NoAnswer}),
     s1 \in (IF metering /\ msg.kind = "CREATE" THEN SysAnswers
             ELSE {NoAnswer}),
     s2 \in (IF metering /\ msg.kind = "CREATE" THEN SysAnswers
             ELSE {NoAnswer}) :
    \E pre \in {athena_prefix(msg, code, rev, e1, s1)} :
    /\ nInv' = nInv + 1
    /\ UNCHANGED <<evm1mode, metering, contract_preload_list, engine,
                   lastOption>>
    /\ IF pre.tag = "engine"
       THEN LET hit == codeCache[msg.dest].module_ # 0
                en == EngineEnter(codeCache, d, msg, pre.run_code)
            IN IF en.tag = "run"
               THEN /\ codeCache' = en.cache
                    /\ frames' = Append(below,
                          [msg |-> msg, code |-> code, module |-> en.module,
                           pc |-> 1, res |-> EthereumInterface(msg),
                           snap |-> NoSnap, resumed |-> FALSE,
                           ran |-> en.ran, hit |-> hit,
                           sys |-> SysOf(pre)])
                    /\ UNCHANGED <<lastDone, remembered>>
               ELSE Return(en.cache, below, d,
                      Info(msg, code, rev,
                           athena_return(msg, Thrown(en.exc), s2),
                           en.exc, "none", <<>>, TRUE, en.module, en.ran,
                           hit, SysOf(pre)))
       ELSE Return(codeCache, below, d,
              Info(msg, code, rev, athena_return(msg, pre, s2),
                   athena_raised(msg, pre, s2), "none", <<>>, FALSE, 0,
                   FALSE, FALSE, athena_syscalls(msg, pre, s2)))

\* The embedder calls execute on the idle instance.
AthenaExecute ==
  /\ frames = <<>>
  /\ nInv < MaxInvocations
  /\ \E in \in Inputs : Enter(<<>>, in.msg, in.code, in.rev)
  /\ UNCHANGED <<depthVars, stackVars, upcallVars, writerVars, lowerVars>>

\* The invocation on top ends: out is what WabtEngine::execute hands to
\* athena_execute (its result, or the exception that leaves it).
Leave(fr, cache, out, ended, endVal, ran) ==
  LET d == Len(fr)
      f == fr[d]
  IN /\ Return(cache, SubSeq(fr, 1, d - 1), d,
               Info(f.msg, f.code, "BYZANTIUM",
                    athena_return(f.msg, out, NoAnswer),
                    athena_raised(f.msg, out, NoAnswer), ended, endVal,
                    TRUE, f.module, ran, f.hit,
                    f.sys \o athena_syscalls(f.msg, out, NoAnswer)))
     /\ UNCHANGED <<evm1mode, metering, contract_preload_list, nInv,
                   engine, lastOption>>

\* The top frame takes a step that keeps it running.
Advance(fr) ==
  [fr EXCEPT ![Len(fr)] = [@ EXCEPT !.pc = @ + 1, !.resumed = FALSE,
                                    !.ran = TRUE]]

\* The interface objects a host function of the running module may act
\* on.  The host functions were bound when the module was instantiated
\* (owner).  When that object is still alive it is the one used; when it
\* has been destroyed the pointer dangles: its storage either holds the
\* interface of an invocation now on the stack (same address) or not (0).
Targets ==
  LET o == codeCache[Top.msg.dest].owner
  IN IF o # 0 THEN {o} ELSE 0..Len(frames)

\* Wasm instructions of main that touch the memory cell or the global.
ContractCompute ==
  /\ frames # <<>>
  /\ CurOp(Top).op \in {"store", "gset", "ginc", "gload"}
  /\ LET o == CurOp(Top)
         a == Top.msg.dest
         e == codeCache[a]
         e2 == CASE o.op = "store" -> [e EXCEPT !.mem = o.a]
                 [] o.op = "gset" -> [e EXCEPT !.glob = o.a]
                 [] o.op = "ginc" -> [e EXCEPT !.glob = (@ + 1) % (MaxVal + 1)]
                 [] o.op = "gload" -> [e EXCEPT !.mem = e.glob]
     IN /\ codeCache' = [codeCache EXCEPT ![a] = e2]
        /\ frames' = Advance(frames)
  /\ UNCHANGED <<evm1mode, metering, contract_preload_list, nInv, lastDone,
                 remembered, engine, lastOption>>
  /\ UNCHANGED <<depthVars, stackVars, upcallVars, writerVars, lowerVars>>

\* eei: useGas(a) on the interface t.
EeiUseGas ==
  /\ frames # <<>>
  /\ CurOp(Top).op = "useGas"
  /\ \E t \in Targets :
       IF t = 0
       THEN \/ /\ frames' = Advance(frames)
               /\ UNCHANGED <<codeCache, nInv, lastDone, remembered,
                              evm1mode, metering, contract_preload_list,
                              engine, lastOption>>
            \/ Leave(frames, codeCache, Thrown("OutOfGas"), "none", <<>>,
                     TRUE)
       ELSE IF CurOp(Top).a > frames[t].res.gasLeft
       THEN Leave(frames, codeCache, Thrown("OutOfGas"), "none", <<>>, TRUE)
       ELSE /\ frames' = Advance([frames EXCEPT ![t].res.gasLeft =
                                           @ - CurOp(Top).a])
            /\ UNCHANGED <<codeCache, nInv, lastDone, remembered,
                           evm1mode, metering, contract_preload_list,
                              engine, lastOption>>
  /\ UNCHANGED <<depthVars, stackVars, upcallVars, writerVars, lowerVars>>

\* eei: finish(x) / revert(x) on the interface t fill t's result slot and
\* raise EndExecution, which WabtEngine::execute absorbs (wabt.cpp 795);
\* execute then returns its own result.
EeiFinish ==
  /\ frames # <<>>
  /\ CurOp(Top).op \in {"finish", "revert"}
  /\ \E t \in Targets :
       LET o == CurOp(Top)
           x == IF o.a = 0 THEN <<>> ELSE <<codeCache[Top.msg.dest].mem>>
           fr == IF t = 0 THEN frames
                 ELSE [frames EXCEPT ![t].res =
                         [@ EXCEPT !.returnValue = x,
                                   !.isRevert = (o.op = "revert")]]
       IN Leave(fr, codeCache, [tag |-> "result", result |-> fr[Len(fr)].res],
                o.op, x, TRUE)
  /\ UNCHANGED <<depthVars, stackVars, upcallVars, writerVars, lowerVars>>

\* main returns without finish or revert.
MainReturn ==
  /\ frames # <<>>
  /\ CurOp(Top).op = "end"
  /\ Leave(frames, codeCache, [tag |-> "result", result |-> Top.res],
           "return", <<>>, Top.ran)
  /\ UNCHANGED <<depthVars, stackVars, upcallVars, writerVars, lowerVars>>

\* main traps: RunExport reports a failure, execute raises VMTrap.
ContractTrap ==
  /\ frames # <<>>
  /\ CurOp(Top).op = "trap"
  /\ Leave(frames, codeCache, Thrown("VMTrap"), "none", <<>>, TRUE)
  /\ UNCHANGED <<depthVars, stackVars, upcallVars, writerVars, lowerVars>>

\* A host function raises an exception other than EndExecution.
HostThrow ==
  /\ frames # <<>>
  /\ CurOp(Top).op = "throw"
  /\ Leave(frames, codeCache, Thrown(ExcKinds[CurOp(Top).a]), "none", <<>>,
           TRUE)
  /\ UNCHANGED <<depthVars, stackVars, upcallVars, writerVars, lowerVars>>

\* eei: call / create.  The host runs the sub-call on this instance while
\* the caller is suspended in the host callback.
EeiCall ==
  /\ frames # <<>>
  /\ CurOp(Top).op = "call"
  /\ Len(frames) < MaxNest
  /\ nInv < MaxInvocations
  /\ LET a == Top.msg.dest
         dst == IF CurOp(Top).a = 0 THEN a ELSE (a % NumDest) + 1
         below == [frames EXCEPT ![Len(frames)] =
                     [@ EXCEPT !.snap = [mem |-> codeCache[a].mem,
                                         glob |-> codeCache[a].glob,
                                         res |-> Top.res],
                               !.resumed = FALSE, !.ran = TRUE]]
     IN \E in \in Inputs :
          /\ in.msg.dest = dst
          /\ Enter(below, in.msg, in.code, in.rev)
  /\ UNCHANGED <<depthVars, stackVars, upcallVars, writerVars, lowerVars>>

\* The host refuses the sub-call (its own depth limit): nothing runs.
EeiCallRefused ==
  /\ frames # <<>>
  /\ CurOp(Top).op = "call"
  /\ Len(frames) = MaxNest \/ nInv = MaxInvocations
  /\ frames' = [frames EXCEPT ![Len(frames)] =
                  [@ EXCEPT !.snap = [mem |-> codeCache[Top.msg.dest].mem,
                                      glob |-> codeCache[Top.msg.dest].glob,
                                      res |-> Top.res],
                            !.pc = @ + 1, !.resumed = TRUE, !.ran = TRUE]]
  /\ UNCHANGED <<codeCache, nInv, lastDone, remembered, evm1mode, metering,
                 contract_preload_list, engine, lastOption>>
  /\ UNCHANGED <<depthVars, stackVars, upcallVars, writerVars, lowerVars>>

DriverNext ==
  \/ AthenaExecute
  \/ ContractCompute
  \/ EeiUseGas
  \/ EeiFinish
  \/ MainReturn
  \/ ContractTrap
  \/ HostThrow
  \/ EeiCall
  \/ EeiCallRefused


\* The embedder calls set_option on the idle instance.  Whether the module
\* cache outlives the engine object it was filled by is not visible in
\* this file (wabt.h): both are possible.
SetOptionOf(names) ==
  /\ frames = <<>>
  /\ nInv < MaxInvocations
  /\ \E name \in names, value \in OptionValues :
       LET r == athena_set_option(name, value, Config)
       IN /\ evm1mode' = r.config.evm1mode
          /\ metering' = r.config.metering
          /\ engine' = r.config.engine
          /\ contract_preload_list' = r.config.list
          /\ lastOption' = [result |-> r.result, name |-> name,
                            value |-> value, before |-> Config]
          /\ \/ codeCache' = codeCache
             \/ /\ r.config.engine.object # engine.object
                /\ codeCache' = [a \in Dests |-> NoEntry]
  /\ nInv' = nInv + 1
  /\ lastDone' = NoDone
  /\ UNCHANGED <<frames, remembered>>
  /\ UNCHANGED <<depthVars, stackVars, upcallVars, writerVars, lowerVars>>

AthenaSetOption == SetOptionOf(OptionNames)

\* set_option of the two options that decide how code is translated and
\* metered.
AthenaSetMode ==
  SetOptionOf({<<"e", "v", "m", "1", "m", "o", "d", "e">>,
               <<"m", "e", "t", "e", "r", "i", "n", "g">>})

\* The creations that are tried: Wasm code, code that is not Wasm and Wasm
\* code of version 2, with and without input data, with negative gas and
\* under another revision; and one call, of a contract that finishes.
CreateInputs ==
  {In(Msg("CREATE", 3, 1, n), c, "BYZANTIUM") : n \in {0, 1}, c \in {1, 19, 20}}
  \cup {In(Msg("CREATE", -1, 1, 0), 1, "BYZANTIUM"),
        In(Msg("CREATE", 3, 1, 0), 1, "FRONTIER"),
        In(Msg("CALL", 3, 1, 0), 2, "BYZANTIUM")}

\* The embedder calls execute with a creation (or the call) once the mode
\* options are set.
CreateExecute ==
  /\ frames = <<>>
  /\ nInv < MaxInvocations + 1
  /\ \E in \in CreateInputs : Enter(<<>>, in.msg, in.code, in.rev)
  /\ UNCHANGED <<depthVars, stackVars, upcallVars, writerVars, lowerVars>>

CreateNext == AthenaSetMode \/ CreateExecute \/ EeiFinish

\* The arguments of athena_execute that are tried on a configured
\* instance: codes that finish, trap, raise each exception and fail each
\* check of the header, called and created.
OptionInputs ==
  {In(Msg("CALL", 3, 1, 0), c, "BYZANTIUM") :
     c \in {1, 10, 19, 20, 21} \cup 11..18}
  \cup {In(Msg("CALL", 1, 1, 0), 9, "BYZANTIUM")}
  \cup {In(Msg("CREATE", 3, 1, n), 1, "BYZANTIUM") : n \in {0, 1}}
  \cup {In(Msg("CALL", 3, 1, 0), 19, "FRONTIER")}

\* The embedder calls execute after it has set an option.
ConfiguredExecute ==
  /\ lastOption.result # "none"
  /\ frames = <<>>
  /\ nInv < MaxInvocations
  /\ \E in \in OptionInputs : Enter(<<>>, in.msg, in.code, in.rev)
  /\ UNCHANGED <<depthVars, stackVars, upcallVars, writerVars, lowerVars>>

\* The contracts of OptionInputs make no sub-call and end with finish, a
\* trap or an exception.
OptionNext ==
  \/ AthenaSetOption
  \/ ConfiguredExecute
  \/ ContractCompute
  \/ EeiUseGas
  \/ EeiFinish
  \/ ContractTrap
  \/ HostThrow

(***************************************************************************)
(* Properties of the driver.                                               *)
(***************************************************************************)

\* C1: a non-CREATE invocation whose contract ends with revert(x) returns
\* status revert with output x, and one that ends with finish(x) returns
\* status success with output x.
C1_RevertFinishReturned ==
  (lastDone.valid /\ lastDone.key.msg.kind # "CREATE") =>
     /\ lastDone.ended = "revert" =>
          (lastDone.ret.status = "REVERT"
           /\ lastDone.ret.output = lastDone.endVal)
     /\ lastDone.ended = "finish" =>
          (lastDone.ret.status = "SUCCESS"
           /\ lastDone.ret.output = lastDone.endVal)

\* The status the exception kind k is to be converted to.
StatusOfException(k) ==
  CASE k = "VMTrap" -> "FAILURE"
    [] k = "OutOfGas" -> "OUT_OF_GAS"
    [] k = "ArgumentOutOfRange" -> "ARGUMENT_OUT_OF_RANGE"
    [] k = "ContractValidationFailure" -> "CONTRACT_VALIDATION_FAILURE"
    [] k = "InvalidMemoryAccess" -> "INVALID_MEMORY_ACCESS"
    [] k = "StaticModeViolation" -> "STATIC_MODE_VIOLATION"
    [] OTHER -> "INTERNAL_ERROR"

\* C2: no exception escapes athena_execute: an invocation that an exception
\* ends returns the one status of that exception's kind (a leaked
\* EndExecution and every unknown exception: internal error), and the idle
\* instance accepts the next invocation.
C2_ExceptionsBecomeStatus ==
  /\ \A k \in AthenaExceptions \cup {"std_exception", "unknown"} :
        Catch(k) = StatusOfException(k)
  /\ lastDone.valid => lastDone.ret.status # "ESCAPED"
  /\ (lastDone.valid /\ lastDone.exc # "none") =>
        lastDone.ret.status = StatusOfException(lastDone.exc)
  /\ (frames = <<>> /\ nInv < MaxInvocations) => ENABLED AthenaExecute

\* C2 witness: an exception that is not an AthenaException ended an
\* invocation served from the cache, and the instance is idle again.
C2_Witness ==
  /\ lastDone.valid /\ lastDone.exc = "std_exception" /\ lastDone.hit
  /\ lastDone.ret.status = "INTERNAL_ERROR"
  /\ frames = <<>>

\* The memory cell and the global as module m declares them.
DeclaredMem(m) == IF Modules[m].data >= 0 THEN Modules[m].data ELSE 0
DeclaredGlob(m) == Modules[m].globInit

\* C7: every invocation starts main with the memory and the global in the
\* state the module declares; nothing an earlier invocation wrote is there.
C7_FreshMemoryAndGlobals ==
  (frames # <<>> /\ Top.pc = 1 /\ ~Top.resumed) =>
     /\ codeCache[Top.msg.dest].mem = DeclaredMem(Top.module)
     /\ codeCache[Top.msg.dest].glob = DeclaredGlob(Top.module)

\* C8: when a suspended invocation is resumed after its sub-call, its
\* memory, its global and the result object of its host functions are as
\* they were when it made the sub-call.
C8_SubCallIsolated ==
  (frames # <<>> /\ Top.resumed) =>
     /\ codeCache[Top.msg.dest].mem = Top.snap.mem
     /\ codeCache[Top.msg.dest].glob = Top.snap.glob
     /\ Top.res = Top.snap.res

\* C9: an invocation with the module, message and host answers of an
\* earlier one returns the same result (status, gas_left, output).
C9_Deterministic ==
  (lastDone.valid /\ remembered.valid /\ lastDone.engine
   /\ lastDone.key = remembered.key /\ lastDone.module = lastDone.key.code)
     => lastDone.ret = remembered.ret

\* C10: an invocation whose module declares a start function, or exports
\* no function named main, ends with contract-validation-failure, on the
\* first load and on a cache hit, and none of the module's code has run.
C10_StartOrNoMainRejected ==
  (lastDone.valid /\ lastDone.engine /\ lastDone.module # 0
   /\ (Modules[lastDone.module].start
       \/ Modules[lastDone.module].main # "func"))
     => /\ lastDone.ret.status = "CONTRACT_VALIDATION_FAILURE"
        /\ lastDone.exc = "ContractValidationFailure"
        /\ ~lastDone.ran

\* C10 witness: a module with a start function was rejected on a cache hit.
C10_Witness ==
  /\ lastDone.valid /\ lastDone.engine /\ lastDone.hit
  /\ lastDone.module # 0 /\ Modules[lastDone.module].start
  /\ lastDone.ret.status = "CONTRACT_VALIDATION_FAILURE"


\* C16: a host function the contract is about to call acts on the
\* EthereumInterface of the invocation that is running, also when the
\* module comes from the cache.
C16_HostCallsCurrentInterface ==
  (frames # <<>> /\ CurOp(Top).op \in {"useGas", "finish", "revert", "call"})
    => Targets = {Len(frames)}

\* C26: the module cache is keyed by the destination only.  A module that
\* is cached for a destination stays the module of that destination; an
\* execute that starts to run for a destination with a cached module runs
\* that module whatever code it was given, and one for a destination
\* without a cached module decodes the code it was given and caches it.
C26_CacheKeyedByDestination ==
  [][/\ \A a \in Dests :
          codeCache[a].module_ # 0 =>
            codeCache'[a].module_ = codeCache[a].module_
     /\ Len(frames') > Len(frames) =>
          LET f == frames'[Len(frames')]
              a == f.msg.dest
          IN IF codeCache[a].module_ # 0
             THEN f.hit /\ f.module = codeCache[a].module_
             ELSE /\ ~f.hit /\ f.module = f.code
                  /\ codeCache'[a].module_ = f.code]_vars

\* C26 witness: an invocation runs the module cached for its destination,
\* which is not the module of the code it was given.
C26_Witness ==
  /\ frames # <<>>
  /\ frames[Len(frames)].hit
  /\ frames[Len(frames)].module # frames[Len(frames)].code
  /\ frames[Len(frames)].module
       = codeCache[frames[Len(frames)].msg.dest].module_

\* The code athena_execute looks at for the invocation that returned last:
\* the preloaded body of the destination when there is one.
RunCode == LET p == contract_preload_list[lastDone.key.msg.dest]
           IN IF p # 0 THEN p ELSE lastDone.key.code

\* The invocation that returned last passed the checks at the entry.
Entered == /\ lastDone.valid
           /\ lastDone.key.rev = "BYZANTIUM"
           /\ lastDone.key.msg.gas >= 0

\* C11 as stated: code that does not begin with the Wasm preamble and
\* version 1 is rejected with the validation status, and the engine is not
\* called on it.
C11_BadHeaderRejected ==
  (lastDone.valid /\ ~(hasWasmPreamble(RunCode) /\ hasWasmVersion(RunCode, 1)))
    => /\ lastDone.ret.status = "CONTRACT_VALIDATION_FAILURE"
       /\ ~lastDone.engine

\* C11 amended: after the checks at the entry, code with the preamble and
\* another version is rejected with the validation status; code without
\* the preamble returns failure under reject and rejected under fallback,
\* and is translated under evm2wasm and runevm; in the first three cases
\* the engine is not called.
C11_BadHeaderByMode ==
  Entered =>
    /\ (hasWasmPreamble(RunCode) /\ ~hasWasmVersion(RunCode, 1))
         => /\ lastDone.ret.status = "CONTRACT_VALIDATION_FAILURE"
            /\ ~lastDone.engine
    /\ (~hasWasmPreamble(RunCode) /\ evm1mode = "reject")
         => /\ lastDone.ret.status = "FAILURE"
            /\ ~lastDone.engine
    /\ (~hasWasmPreamble(RunCode) /\ evm1mode = "fallback")
         => /\ lastDone.ret.status = "REJECTED"
            /\ ~lastDone.engine
    /\ (~hasWasmPreamble(RunCode) /\ lastDone.engine)
         => evm1mode \in {"evm2wasm", "runevm"}

\* C11 witness: a preloaded body without the preamble replaced the Wasm
\* code of the call and was refused under reject.
C11_Witness ==
  /\ Entered /\ evm1mode = "reject"
  /\ hasWasmPreamble(lastDone.key.code) /\ ~hasWasmPreamble(RunCode)
  /\ lastDone.ret.status = "FAILURE" /\ ~lastDone.engine

\* A name athena_set_option recognises, and a value it recognises for it.
RecognisedName(n) ==
  \/ n \in {<<"e", "v", "m", "1", "m", "o", "d", "e">>,
            <<"m", "e", "t", "e", "r", "i", "n", "g">>,
            <<"b", "e", "n", "c", "h", "m", "a", "r", "k">>,
            <<"e", "n", "g", "i", "n", "e">>}
  \/ Len(n) >= 4 /\ SubSeq(n, 1, 4) = <<"s", "y", "s", ":">>

RecognisedValue(n, v) ==
  CASE n = <<"e", "v", "m", "1", "m", "o", "d", "e">> ->
         v \in {"reject", "fallback", "evm2wasm", "runevm"}
    [] n = <<"m", "e", "t", "e", "r", "i", "n", "g">> ->
         v \in {"true", "false"}
    [] n = <<"b", "e", "n", "c", "h", "m", "a", "r", "k">> -> v = "true"
    [] n = <<"e", "n", "g", "i", "n", "e">> -> v = "wabt"
    [] OTHER -> v \in {"meter.wasm", "evm.bin"}

\* C14: a name that is not recognised returns invalid-name, a recognised
\* name with a value that is not recognised returns invalid-value, and a
\* call that returns either leaves evm1mode, the metering flag, the engine
\* and the preload list as they were.
C14_InvalidOptionsChangeNothing ==
  lastOption.result # "none" =>
    /\ ~RecognisedName(lastOption.name) => lastOption.result = "INVALID_NAME"
    /\ (/\ RecognisedName(lastOption.name)
        /\ ~RecognisedValue(lastOption.name, lastOption.value))
         => lastOption.result = "INVALID_VALUE"
    /\ lastOption.result \in {"INVALID_NAME", "INVALID_VALUE"}
         => Config = lastOption.before

\* C14 witness: on an instance whose options had been changed, a sys:
\* option with a value that cannot be loaded returned invalid-value.
C14_Witness ==
  /\ lastOption.result = "INVALID_VALUE"
  /\ Len(lastOption.name) >= 4
  /\ SubSeq(lastOption.name, 1, 4) = <<"s", "y", "s", ":">>
  /\ ~RecognisedValue(lastOption.name, lastOption.value)
  /\ lastOption.before # NoOption.before
  /\ Config = lastOption.before

\* C30: set_option never turns metering off: metering "true" returns
\* success and sets the flag, metering "false" returns success and leaves
\* the flag as it was, and no step of the instance clears a set flag.
C30_MeteringMonotone ==
  [][/\ metering => metering'
     /\ (lastOption'.result # "none"
           /\ lastOption'.name = <<"m", "e", "t", "e", "r", "i", "n", "g">>) =>
          /\ lastOption'.value = "true" =>
               lastOption'.result = "SUCCESS" /\ metering'
          /\ lastOption'.value = "false" =>
               /\ lastOption'.result = "SUCCESS"
               /\ metering' = lastOption'.before.metering]_vars

\* C30 witness: metering "false" returned success on an instance with
\* metering on, and metering is still on.
C30_Witness ==
  /\ lastOption.name = <<"m", "e", "t", "e", "r", "i", "n", "g">>
  /\ lastOption.value = "false" /\ lastOption.result = "SUCCESS"
  /\ lastOption.before.metering /\ metering

\* The calls of the sentinel and of the translating contract that the
\* invocation that returned last has made, in order.
Sentinels ==
  SelectSeq(lastDone.sys, LAMBDA c : c.contract = sentinelAddress)
Translations ==
  SelectSeq(lastDone.sys, LAMBDA c : c.contract # sentinelAddress)

\* The code to run after translation; 0 when there is none.
Translated ==
  IF hasWasmPreamble(RunCode) THEN RunCode
  ELSE IF Translations = <<>> THEN 0
  ELSE Translations[1].out

GoodWasm(c) == hasWasmPreamble(c) /\ hasWasmVersion(c, 1)

\* The invocation that returned last was a creation that passed every
\* check before the create branch: revision and gas, a version 1 code to
\* run (supplied as Wasm or translated), and the metering of Wasm code.
CreateBranch ==
  /\ Entered
  /\ lastDone.key.msg.kind = "CREATE"
  /\ hasWasmVersion(Translated, 1)
  /\ \/ hasWasmPreamble(RunCode)
     \/ evm1mode = "evm2wasm"
     \/ evm1mode = "runevm" /\ hasWasmPreamble(Translated)
  /\ (metering /\ hasWasmPreamble(RunCode)) =>
       (Sentinels # <<>> /\ GoodWasm(Sentinels[1].out))

\* The code the create branch puts into the result.
CreatedCode ==
  IF metering /\ hasWasmPreamble(RunCode) /\ Sentinels # <<>>
  THEN Sentinels[1].out ELSE Translated

C29_SentinelTwice ==
  lastDone.valid =>
    /\ Sentinels # <<>> =>
         /\ metering /\ lastDone.key.msg.kind = "CREATE"
         /\ hasWasmPreamble(RunCode)
    /\ (/\ metering /\ lastDone.key.msg.kind = "CREATE"
        /\ hasWasmPreamble(RunCode)
        /\ lastDone.ret.status = "SUCCESS") =>
         /\ Len(Sentinels) = 2
         /\ Sentinels[2].input = Sentinels[1].out
    /\ \A i \in 1..Len(Sentinels) :
         (Sentinels[i].status # "SUCCESS" \/ ~GoodWasm(Sentinels[i].out))
           => lastDone.ret.status = "CONTRACT_VALIDATION_FAILURE"
    /\ ~metering => Sentinels = <<>>

\* C29: the sentinel is called only for a creation with metering on whose
\* code to run, supplied or translated, is Wasm; it is called at most
\* twice, the second call on the output of the first; a successful creation
\* of supplied Wasm code has called it twice, and one of translated code
\* once, on the translated code; a call that fails or returns something
\* else than version 1 Wasm ends the invocation with the validation status;
\* with metering off it is never called.
C29_SentinelOnWasmToRun ==
  lastDone.valid =>
    /\ Sentinels # <<>> =>
         /\ metering /\ lastDone.key.msg.kind = "CREATE"
         /\ hasWasmPreamble(Translated)
    /\ Len(Sentinels) <= 2
    /\ Len(Sentinels) = 2 => Sentinels[2].input = Sentinels[1].out
    /\ (/\ metering /\ lastDone.key.msg.kind = "CREATE"
        /\ lastDone.ret.status = "SUCCESS"
        /\ hasWasmPreamble(Translated)) =>
         IF hasWasmPreamble(RunCode)
         THEN Len(Sentinels) = 2 /\ Sentinels[1].input = RunCode
         ELSE Len(Sentinels) = 1 /\ Sentinels[1].input = Translated
    /\ \A i \in 1..Len(Sentinels) :
         (Sentinels[i].status # "SUCCESS" \/ ~GoodWasm(Sentinels[i].out))
           => lastDone.ret.status = "CONTRACT_VALIDATION_FAILURE"
    /\ ~metering => Sentinels = <<>>

\* C29 witness: a creation of Wasm code with metering on succeeded after
\* two calls of the sentinel, the second on the output of the first.
C29_Witness ==
  /\ lastDone.valid /\ metering /\ lastDone.key.msg.kind = "CREATE"
  /\ hasWasmPreamble(RunCode) /\ lastDone.ret.status = "SUCCESS"
  /\ Len(Sentinels) = 2 /\ Sentinels[2].input = Sentinels[1].out

\* C15: an invocation that returns a status other than success or revert
\* returns gas_left 0 and no output.
C15_FailureReturnsNothing ==
  (lastDone.valid /\ lastDone.ret.status \notin {"SUCCESS", "REVERT"})
    => lastDone.ret.gas_left = 0 /\ lastDone.ret.output = <<>>

\* C15 witness: the contract ran out of gas in the engine, with gas in the
\* message, and the result carries none of it.
C15_Witness ==
  /\ lastDone.valid /\ lastDone.engine /\ lastDone.ran
  /\ lastDone.ret.status = "OUT_OF_GAS"
  /\ lastDone.key.msg.gas > 0
  /\ lastDone.ret.gas_left = 0 /\ lastDone.ret.output = <<>>


(***************************************************************************)
(* x86_64.hpp: calls.  The module being compiled has NumFuncs functions    *)
(* (numbered from 0) with the canonical type tokens fast_functions, and a  *)
(* table whose last slot names a function that does not exist.             *)
(***************************************************************************)
MaxBudget == 3
NumFuncs == 2
MaxInt32 == 2147483647
MinInt32 == -MaxInt32 - 1

\* 64-bit numbers: [h, l] stands for h * 2^31 + l, 0 <= l < 2^31.
WAdd(a, b) ==
  IF a.l > MaxInt32 - b.l
  THEN [h |-> a.h + b.h + 1, l |-> (a.l - (MaxInt32 - b.l)) - 1]
  ELSE [h |-> a.h + b.h, l |-> a.l + b.l]

WSub(a, b) ==
  IF a.l < b.l
  THEN [h |-> a.h - b.h - 1, l |-> ((a.l - b.l) + MaxInt32) + 1]
  ELSE [h |-> a.h - b.h, l |-> a.l - b.l]
table_element_size == 17

Types == {0, 1}
fast_functions == [f \in 0..(NumFuncs - 1) |-> f % 2]
table == [i \in 0..NumFuncs |-> i]
table_size == NumFuncs + 1

NoCall == [kind |-> "none", frames |-> 0, before |-> 0, rax |-> 0, t |-> 0,
           to |-> "none", fn |-> -1]
NoRet == [valid |-> FALSE, before |-> 0, after |-> 0]

\* emit_check_call_depth: decl %ebx; jz stack_overflow.  The 32 bits of
\* ebx are read as a two's-complement number: 0 - 1 is -1 (0xffffffff).
emit_check_call_depth(e) ==
  LET d == IF e = MinInt32 THEN MaxInt32 ELSE e - 1
  IN [ebx |-> d, overflow |-> d = 0]

\* The call sequence without the increment after the call.
emit_check_call_depth_end_missing(e) == e

\* emit_check_call_depth_end: incl %ebx.
emit_check_call_depth_end(e) == IF e = MaxInt32 THEN MinInt32 ELSE e + 1

\* A jump-table entry that jumps to the function without comparing types.
jump_table_entry_unchecked(fn_idx, edx) ==
  IF fn_idx < NumFuncs
  THEN [to |-> "function", fn |-> fn_idx]
  ELSE [to |-> "call_indirect_error", fn |-> -1]

\* The jump-table entry the constructor emits for a slot holding fn_idx,
\* entered with the caller's type token in edx.
jump_table_entry(fn_idx, edx) ==
  IF fn_idx < NumFuncs
  THEN IF fast_functions[fn_idx] = edx
       THEN [to |-> "function", fn |-> fn_idx]
       ELSE [to |-> "type_error", fn |-> -1]
  ELSE [to |-> "call_indirect_error", fn |-> -1]

\* emit_call_indirect, after the depth check: rax is the popped index, t the
\* canonical token of the caller's type.
call_indirect_dispatch(rax, t) ==
  IF rax >= table_size
  THEN [to |-> "call_indirect_error", fn |-> -1]
  ELSE \* imul $17, %eax, %eax: for the table of this section the product
       \* of an index below table_size is far below 2^32
       \* (emit_call_indirect_target has the 32-bit product for any size).
       LET eax == rax * table_element_size
       IN jump_table_entry(table[eax \div table_element_size], t)

DepthInit ==
  /\ budget \in 1..MaxBudget
  /\ ebx = budget
  /\ callStack = <<>>
  /\ jit = "running"
  /\ lastCall = NoCall
  /\ lastRet = NoRet

DepthIdle ==
  /\ budget = 1 /\ ebx = 1 /\ callStack = <<>> /\ jit = "idle"
  /\ lastCall = NoCall /\ lastRet = NoRet

\* The code emitted by emit_call(ft, f), up to the entry of f.
Call ==
  /\ jit = "running"
  /\ \E f \in 0..(NumFuncs - 1) :
       LET c == emit_check_call_depth(ebx)
       IN /\ ebx' = c.ebx
          /\ lastCall' = [kind |-> "call", frames |-> Len(callStack) + 1,
                          before |-> ebx, rax |-> 0, t |-> 0,
                          to |-> IF c.overflow THEN "stack_overflow"
                                 ELSE "function",
                          fn |-> IF c.overflow THEN -1 ELSE f]
          /\ IF c.overflow
             THEN jit' = "stack_overflow" /\ UNCHANGED callStack
             ELSE /\ callStack' = Append(callStack, [fn |-> f, saved |-> ebx])
                  /\ UNCHANGED jit
  /\ UNCHANGED <<budget, lastRet>>
  /\ UNCHANGED <<dvars, stackVars, upcallVars, writerVars, lowerVars>>

\* The code emitted by emit_call_indirect(ft, t), up to the entry of the
\* function or of an error handler.
CallIndirect ==
  /\ jit = "running"
  /\ \E rax \in 0..(table_size + 1), t \in Types :
       LET c == emit_check_call_depth(ebx)
           to == call_indirect_dispatch(rax, t)
       IN /\ ebx' = c.ebx
          /\ lastCall' = [kind |-> "call_indirect",
                          frames |-> Len(callStack) + 1,
                          before |-> ebx, rax |-> rax, t |-> t,
                          to |-> IF c.overflow THEN "stack_overflow"
                                 ELSE to.to,
                          fn |-> IF c.overflow THEN -1 ELSE to.fn]
          /\ IF c.overflow
             THEN jit' = "stack_overflow" /\ UNCHANGED callStack
             ELSE IF to.to = "function"
             THEN /\ callStack' = Append(callStack,
                                         [fn |-> to.fn, saved |-> ebx])
                  /\ UNCHANGED jit
             ELSE jit' = to.to /\ UNCHANGED callStack
  /\ UNCHANGED <<budget, lastRet>>
  /\ UNCHANGED <<dvars, stackVars, upcallVars, writerVars, lowerVars>>

\* The innermost function returns; the rest of the caller's call sequence
\* runs (emit_multipop, push of the result, emit_check_call_depth_end).
FunctionReturn ==
  /\ jit = "running"
  /\ callStack # <<>>
  /\ ebx' = emit_check_call_depth_end(ebx)
  /\ lastRet' = [valid |-> TRUE,
                 before |-> callStack[Len(callStack)].saved,
                 after |-> ebx']
  /\ callStack' = SubSeq(callStack, 1, Len(callStack) - 1)
  /\ UNCHANGED <<jit, budget, lastCall>>
  /\ UNCHANGED <<dvars, stackVars, upcallVars, writerVars, lowerVars>>

DepthNext ==
  \/ Call
  \/ CallIndirect
  \/ FunctionReturn

\* C3: with the counter set to the budget before entry, the JITted frames
\* (the entry frame included) never outnumber the budget; the call that
\* would make one frame more reaches the stack-overflow handler; and after
\* a call has returned the counter is what it was before the call.
C3_CallDepthBounded ==
  /\ jit # "idle" => Len(callStack) + 1 <= budget
  /\ (lastCall.kind # "none" /\ lastCall.frames = budget) =>
        (lastCall.to = "stack_overflow" /\ jit = "stack_overflow")
  /\ lastCall.kind # "none" =>
        lastCall.before = budget - (lastCall.frames - 1)
  /\ lastRet.valid => lastRet.after = lastRet.before

\* C3 witness: a call was made with the budget used up, after an earlier
\* call had returned.
C3_Witness ==
  /\ lastCall.kind = "call_indirect" /\ lastCall.frames = budget
  /\ budget = MaxBudget /\ jit = "stack_overflow"
  /\ lastRet.valid

\* C4 as stated: call_indirect with index i and caller token t enters the
\* function of slot i exactly if i is in range, the slot's function exists
\* and its token is t; an index out of range or a slot without function
\* reaches the call-indirect error handler, a differing type alone the
\* type-error handler.
C4_IndirectDispatch ==
  lastCall.kind = "call_indirect" =>
    LET i == lastCall.rax
        inRange == i < table_size
        exists == inRange /\ table[i] < NumFuncs
        sameType == exists /\ fast_functions[table[i]] = lastCall.t
    IN /\ (lastCall.to = "function" /\ lastCall.fn = table[i])
            <=> (inRange /\ exists /\ sameType)
       /\ ~exists => lastCall.to = "call_indirect_error"
       /\ (exists /\ ~sameType) => lastCall.to = "type_error"

\* C4 amended: the same, for a call_indirect whose call-depth check passes;
\* when the check fails control reaches the stack-overflow handler whatever
\* the index and the type are.
C4_IndirectDispatchWithinDepth ==
  lastCall.kind = "call_indirect" =>
    LET i == lastCall.rax
        inRange == i < table_size
        exists == inRange /\ table[i] < NumFuncs
        sameType == exists /\ fast_functions[table[i]] = lastCall.t
    IN IF lastCall.before = 1
       THEN lastCall.to = "stack_overflow"
       ELSE /\ (lastCall.to = "function" /\ lastCall.fn = table[i])
                 <=> (inRange /\ exists /\ sameType)
            /\ ~exists => lastCall.to = "call_indirect_error"
            /\ (exists /\ ~sameType) => lastCall.to = "type_error"

\* C4 witness: each of the three outcomes of a call_indirect that passes
\* the depth check is distinguished by the state; this one is the type
\* error on an in-range slot.
C4_Witness ==
  /\ lastCall.kind = "call_indirect" /\ lastCall.before > 1
  /\ lastCall.rax < table_size /\ table[lastCall.rax] < NumFuncs
  /\ fast_functions[table[lastCall.rax]] # lastCall.t
  /\ jit = "type_error"


(***************************************************************************)
(* x86_64.hpp: what the lowering of each opcode does to the native stack.  *)
(* A lowering is the sequence of the emitted instructions that move rsp:   *)
(* push, pop, add/lea n to rsp, call (pushes the return address, which     *)
(* the callee's ret pops).  Instructions that only read or write (%rsp)    *)
(* in place are left out.                                                  *)
(***************************************************************************)
MaxDepth == 4      \* operand-stack depths 0..MaxDepth are explored
MaxParams == 2     \* parameters of a called function: 0..MaxParams

push == [i |-> "push", n |-> 0]
pop == [i |-> "pop", n |-> 0]
call == [i |-> "call", n |-> 0]
addRsp(n) == [i |-> "add", n |-> n]

\* emit_multipop(count).  count is n slots, with the high bit (keep) set
\* when the top slot is a result that stays on top; 0 and 0x80000001 emit
\* nothing.
emit_multipop(n, keep) ==
  IF n > 0 /\ ~(keep /\ n = 1)
  THEN <<addRsp(8 * n)>> \o (IF keep THEN <<push>> ELSE <<>>)
  ELSE <<>>

\* The depth_change of a branch that drops d slots under k results.
depth_change(d, k) == [n |-> d + k, keep |-> k = 1]

emit_load_impl == <<pop, push>>
emit_store_impl == <<pop, pop>>
emit_i32_relop == <<pop, pop, push>>
emit_i64_relop == <<pop, pop, push>>

\* emit_f32_relop with lea 8(%rsp) in place of lea 16(%rsp).
emit_f32_relop_lea8 == <<addRsp(8), push>>

emit_f32_relop == <<addRsp(16), push>>
emit_f64_relop == <<addRsp(16), push>>
\* the last byte each caller passes to emit_i32_binop / emit_i64_binop is
\* its push (0x50 or 0x52)
emit_i32_binop == <<pop, pop, push>>
emit_i64_binop == <<pop, pop, push>>
emit_f32_binop == <<addRsp(8)>>
emit_f64_binop == <<addRsp(8)>>
emit_f2i == <<push, pop>>

\* The opcodes, grouped by the code that lowers them.
OpcodeNames ==
  [
   Loads |->
      {"i32_load", "i64_load", "f32_load", "f64_load", "i32_load8_s",
      "i32_load16_s", "i32_load8_u", "i32_load16_u", "i64_load8_s",
      "i64_load16_s", "i64_load32_s", "i64_load8_u", "i64_load16_u",
      "i64_load32_u"},
   Stores |->
      {"i32_store", "i64_store", "f32_store", "f64_store", "i32_store8",
      "i32_store16", "i64_store8", "i64_store16", "i64_store32"},
   Consts |->
      {"i32_const", "i64_const", "f32_const", "f64_const"},
   I32Relops |->
      {"i32_eq", "i32_ne", "i32_lt_s", "i32_lt_u", "i32_gt_s",
      "i32_gt_u", "i32_le_s", "i32_le_u", "i32_ge_s", "i32_ge_u"},
   I64Relops |->
      {"i64_eq", "i64_ne", "i64_lt_s", "i64_lt_u", "i64_gt_s",
      "i64_gt_u", "i64_le_s", "i64_le_u", "i64_ge_s", "i64_ge_u"},
   F32Relops |->
      {"f32_eq", "f32_ne", "f32_lt", "f32_gt", "f32_le", "f32_ge"},
   F64Relops |->
      {"f64_eq", "f64_ne", "f64_lt", "f64_gt", "f64_le", "f64_ge"},
   I32Binops |->
      {"i32_add", "i32_sub", "i32_mul", "i32_div_s", "i32_div_u",
      "i32_rem_u", "i32_and", "i32_or", "i32_xor", "i32_shl",
      "i32_shr_s", "i32_shr_u", "i32_rotl", "i32_rotr"},
   I64Binops |->
      {"i64_add", "i64_sub", "i64_mul", "i64_div_s", "i64_div_u",
      "i64_rem_u", "i64_and", "i64_or", "i64_xor", "i64_shl",
      "i64_shr_s", "i64_shr_u", "i64_rotl", "i64_rotr"},
   RemS |->
      {"i32_rem_s", "i64_rem_s"},
   F32Binops |->
      {"f32_add", "f32_sub", "f32_mul", "f32_div"},
   F64Binops |->
      {"f64_add", "f64_sub", "f64_mul", "f64_div"},
   MinMax |->
      {"f32_min", "f32_max", "f64_min", "f64_max"},
   Copysign |->
      {"f32_copysign", "f64_copysign"},
   \* unary operators lowered as pop, compute, push
   PopPushUnops |->
      {"i32_eqz", "i64_eqz", "i32_clz", "i32_ctz", "i32_popcnt",
      "i64_clz", "i64_ctz", "i64_popcnt", "f32_abs", "f32_neg",
      "f64_abs", "f64_neg"},
   \* unary operators and conversions that rewrite (%rsp) in place
   InPlaceUnops |->
      {"f32_ceil", "f32_floor", "f32_trunc", "f32_nearest",
      "f32_sqrt", "f64_ceil", "f64_floor", "f64_trunc",
      "f64_nearest", "f64_sqrt", "i32_wrap_i64",
      "i64_extend_s_i32", "i64_extend_u_i32",
      "f32_convert_s_i32", "f32_convert_u_i32",
      "f32_convert_s_i64", "f32_convert_u_i64", "f32_demote_f64",
      "f64_convert_s_i32", "f64_convert_u_i32",
      "f64_convert_s_i64", "f64_convert_u_i64", "f64_promote_f32",
      "i32_reinterpret_f32", "i64_reinterpret_f64",
      "f32_reinterpret_i32", "f64_reinterpret_i64"},
   \* float-to-integer truncations, lowered around emit_f2i
   Truncs |->
      {"i32_trunc_s_f32", "i32_trunc_u_f32", "i32_trunc_s_f64",
      "i32_trunc_u_f64", "i64_trunc_s_f32", "i64_trunc_u_f32",
      "i64_trunc_s_f64", "i64_trunc_u_f64"},
   NoCode |->
      {"nop", "block", "loop", "end"},
   Simple |->
      {"drop", "select", "get_local", "set_local", "tee_local",
      "get_global", "set_global", "current_memory", "grow_memory",
      "if", "else"}
  ]

PlainNames == UNION {OpcodeNames[k] : k \in DOMAIN OpcodeNames}

\* An opcode with its immediates, as far as they matter here:
\*   call, call_indirect : p parameters, r results of the callee's type
\*   br, br_if, br_table, return : the branch (taken if t) drops d slots
\*                                 under r results
Opcode(name, p, r, d, t) == [name |-> name, p |-> p, r |-> r, d |-> d, t |-> t]

Opcodes ==
  {Opcode(nm, 0, 0, 0, FALSE) : nm \in PlainNames}
  \cup {Opcode(nm, p, r, 0, FALSE) :
          nm \in {"call", "call_indirect"}, p \in 0..MaxParams, r \in {0, 1}}
  \cup {Opcode(nm, 0, r, d, TRUE) :
          nm \in {"br", "br_if", "br_table", "return"},
          r \in {0, 1}, d \in 0..MaxDepth}
  \cup {Opcode("br_if", 0, r, d, FALSE) : r \in {0, 1}, d \in 0..MaxDepth}

emit_drop == <<pop>>
emit_select == <<pop, pop>>
emit_br(dc) == emit_multipop(dc.n, dc.keep)

\* emit_br_if / br_table_generator::emit_case: the code on the path of a
\* taken branch, after the pop of the condition or of the index.
taken_branch(dc) ==
  IF dc.n = 0 \/ (dc.keep /\ dc.n = 1) THEN <<>>
  ELSE emit_multipop(dc.n, dc.keep)

\* The rsp-moving instructions on the path the opcode o takes.
Lowering(o) ==
  LET nm == o.name
      dc == depth_change(o.d, o.r)
  IN CASE nm \in OpcodeNames.Loads -> emit_load_impl
       [] nm \in OpcodeNames.Stores -> emit_store_impl
       [] nm \in OpcodeNames.Consts -> <<push>>
       [] nm \in OpcodeNames.I32Relops -> emit_i32_relop
       [] nm \in OpcodeNames.I64Relops -> emit_i64_relop
       [] nm \in OpcodeNames.F32Relops -> emit_f32_relop
       [] nm \in OpcodeNames.F64Relops -> emit_f64_relop
       [] nm \in OpcodeNames.I32Binops -> emit_i32_binop
       [] nm \in OpcodeNames.I64Binops -> emit_i64_binop
       [] nm \in OpcodeNames.RemS -> <<pop, pop, push>>
       [] nm \in OpcodeNames.F32Binops -> emit_f32_binop
       [] nm \in OpcodeNames.F64Binops -> emit_f64_binop
       [] nm \in OpcodeNames.MinMax -> <<addRsp(8)>>
       [] nm \in OpcodeNames.Copysign -> <<pop, pop, push>>
       [] nm \in OpcodeNames.PopPushUnops -> <<pop, push>>
       [] nm \in OpcodeNames.InPlaceUnops -> <<>>
       [] nm \in OpcodeNames.Truncs -> emit_f2i
       [] nm \in OpcodeNames.NoCode -> <<>>
       [] nm = "drop" -> emit_drop
       [] nm = "select" -> emit_select
       [] nm \in {"get_local", "get_global"} -> <<push>>
       [] nm \in {"set_local", "set_global"} -> <<pop>>
       [] nm = "tee_local" -> <<pop, push>>
       [] nm = "current_memory" -> <<push, push, call, pop, pop, push>>
       [] nm = "grow_memory" -> <<pop, push, push, call, pop, pop, push>>
       [] nm = "if" -> <<pop>>
       [] nm = "else" -> emit_br(depth_change(0, 0))
       [] nm = "call" ->
            <<call>> \o emit_multipop(o.p, FALSE)
              \o (IF o.r # 0 THEN <<push>> ELSE <<>>)
       [] nm = "call_indirect" ->
            <<pop, call>> \o emit_multipop(o.p, FALSE)
              \o (IF o.r # 0 THEN <<push>> ELSE <<>>)
       [] nm \in {"br", "return"} -> emit_br(dc)
       [] nm = "br_if" -> <<pop>> \o (IF o.t THEN taken_branch(dc) ELSE <<>>)
       [] nm = "br_table" -> <<pop>> \o taken_branch(dc)

\* One instruction's effect on rsp.
StepRsp(x, ins) ==
  CASE ins.i = "push" -> x - 8
    [] ins.i = "pop" -> x + 8
    [] ins.i = "add" -> x + ins.n
    [] ins.i = "call" -> x

RECURSIVE RunRsp(_, _)
RunRsp(seq, x) ==
  IF seq = <<>> THEN x ELSE RunRsp(Tail(seq), StepRsp(x, Head(seq)))

\* WebAssembly: the operands an opcode takes from the operand stack and
\* the results it leaves (for a branch: on the path it takes).
WasmPops(o) ==
  LET nm == o.name
  IN CASE nm \in OpcodeNames.Consts \cup OpcodeNames.NoCode
               \cup {"get_local", "get_global", "current_memory", "else"}
            -> 0
       [] nm \in OpcodeNames.Loads \cup OpcodeNames.PopPushUnops \cup OpcodeNames.InPlaceUnops \cup OpcodeNames.Truncs
               \cup {"drop", "set_local", "tee_local", "set_global",
                     "grow_memory", "if"} -> 1
       [] nm \in OpcodeNames.Stores \cup OpcodeNames.I32Relops \cup OpcodeNames.I64Relops \cup OpcodeNames.F32Relops
               \cup OpcodeNames.F64Relops \cup OpcodeNames.I32Binops \cup OpcodeNames.I64Binops \cup OpcodeNames.RemS
               \cup OpcodeNames.F32Binops \cup OpcodeNames.F64Binops \cup OpcodeNames.MinMax \cup OpcodeNames.Copysign -> 2
       [] nm = "select" -> 3
       [] nm = "call" -> o.p
       [] nm = "call_indirect" -> o.p + 1
       [] nm \in {"br", "return"} -> o.d + o.r
       [] nm = "br_if" -> IF o.t THEN 1 + o.d + o.r ELSE 1
       [] nm = "br_table" -> 1 + o.d + o.r

WasmPushes(o) ==
  LET nm == o.name
  IN CASE nm \in OpcodeNames.Stores \cup OpcodeNames.NoCode
               \cup {"drop", "set_local", "set_global", "if", "else"} -> 0
       [] nm \in {"call", "call_indirect"} -> o.r
       [] nm \in {"br", "return", "br_table"} -> o.r
       [] nm = "br_if" -> IF o.t THEN o.r ELSE 0
       [] OTHER -> 1

\* The operands that must be on the stack for o to be type-valid there.
WasmNeeds(o) ==
  IF o.name = "br_if" /\ ~o.t THEN 1 + o.r ELSE WasmPops(o)

StackBases == {8 * (MaxDepth + 2), 8 * (MaxDepth + 3)}

StackInit ==
  /\ fbase \in StackBases
  /\ sp = fbase
  /\ wdepth = 0
  /\ lastOp = Opcode("nop", 0, 0, 0, FALSE)

StackIdle ==
  /\ fbase = 0 /\ sp = 0 /\ wdepth = 0
  /\ lastOp = Opcode("nop", 0, 0, 0, FALSE)

\* The code emitted for the opcode o runs, from one opcode boundary to the
\* next one on the path taken.
Exec(o) ==
  /\ wdepth >= WasmNeeds(o)
  /\ wdepth - WasmPops(o) + WasmPushes(o) <= MaxDepth
  /\ sp' = RunRsp(Lowering(o), sp)
  /\ wdepth' = wdepth - WasmPops(o) + WasmPushes(o)
  /\ lastOp' = o
  /\ UNCHANGED fbase

ExecOp ==
  /\ \E o \in Opcodes : o.name \in PlainNames /\ Exec(o)
  /\ UNCHANGED <<dvars, depthVars, upcallVars, writerVars, lowerVars>>

ExecCall ==
  /\ \E o \in Opcodes : o.name \in {"call", "call_indirect"} /\ Exec(o)
  /\ UNCHANGED <<dvars, depthVars, upcallVars, writerVars, lowerVars>>

ExecBranch ==
  /\ \E o \in Opcodes :
        o.name \in {"br", "br_if", "br_table", "return"} /\ Exec(o)
  /\ UNCHANGED <<dvars, depthVars, upcallVars, writerVars, lowerVars>>

StackNext ==
  \/ ExecOp
  \/ ExecCall
  \/ ExecBranch

\* C6: the slots the code of every opcode pushes, less those it pops, are
\* the opcode's effect on the Wasm operand stack; so at every opcode
\* boundary rsp is 8 * (operand-stack depth) away from the frame's base (on
\* the side the stack grows to) and is a multiple of 8.
C6_StackEffect ==
  /\ \A o \in Opcodes :
        -RunRsp(Lowering(o), 0) = 8 * (WasmPushes(o) - WasmPops(o))
  /\ fbase - sp = 8 * wdepth
  /\ sp % 8 = 0

\* C6 witness: a taken br_if that drops two slots under one result has
\* run, and so has the byte-wise different path of its lowering.
C6_Witness ==
  /\ lastOp.name = "br_if" /\ lastOp.t /\ lastOp.r = 1 /\ lastOp.d = 2
  /\ wdepth = 1 /\ sp = fbase - 8


(***************************************************************************)
(* x86_64.hpp: transitions from the emitted code into host code, executed  *)
(* instruction by instruction on the registers and the native stack.       *)
(***************************************************************************)
StackSlots == 10    \* the native stack has the slots 0, 8, .., 8*StackSlots
MaxOperands == 2    \* Wasm operands on the native stack
MaxPages == 2       \* the linear memory grows up to MaxPages pages

SlotAddrs == {8 * k : k \in 0..StackSlots}
Junk == {0, 7}

Push(m, v) == [m EXCEPT !.rsp = m.rsp - 8, !.stk = [@ EXCEPT ![m.rsp - 8] = v]]
Pop(m) == [m EXCEPT !.rsp = m.rsp + 8]
AtRsp(m) == m.stk[m.rsp]

\* emit_align_stack: mov %rsp, %rcx; andq $-16, %rsp; push %rcx; push %rcx.
emit_align_stack(m) ==
  LET m1 == [m EXCEPT !.rcx = m.rsp]
      m2 == [m1 EXCEPT !.rsp = m1.rsp - (m1.rsp % 16)]
  IN Push(Push(m2, m2.rcx), m2.rcx)

\* emit_restore_stack: mov (%rsp), %rsp.
emit_restore_stack(m) == [m EXCEPT !.rsp = AtRsp(m)]

\* call *%rax into a host shim, and the shim's return.  A C function may
\* leave anything in rdi, rsi, rax and rcx; r is what this one leaves.  It
\* keeps rsp and the stack above it.
CallShim(m, r) ==
  [m EXCEPT !.rax = r.rax, !.rdi = r.rdi, !.rsi = r.rsi, !.rcx = r.rcx]

\* emit_current_memory up to the call: pushq %rdi; pushq %rsi; movabsq.
emit_current_memory_call(m) == Push(Push(m, m.rdi), m.rsi)

\* emit_current_memory after the call: pop %rsi; pop %rdi; push %rax.
emit_current_memory_ret(m) ==
  LET m1 == [Pop(m) EXCEPT !.rsi = AtRsp(m)]
      m2 == [Pop(m1) EXCEPT !.rdi = AtRsp(m1)]
  IN Push(m2, m2.rax)

\* emit_grow_memory up to the call: popq %rax; pushq %rdi; pushq %rsi;
\* movq %rax, %rsi; movabsq.
emit_grow_memory_call(m) ==
  LET m1 == [Pop(m) EXCEPT !.rax = AtRsp(m)]
      m2 == Push(Push(m1, m1.rdi), m1.rsi)
  IN [m2 EXCEPT !.rsi = m2.rax]

\* The code after the call with the two pops in the order of the pushes.
emit_grow_memory_ret_swapped(m) ==
  LET m1 == [Pop(m) EXCEPT !.rdi = AtRsp(m)]
      m2 == [Pop(m1) EXCEPT !.rsi = AtRsp(m1)]
  IN Push(m2, m2.rax)

\* emit_grow_memory after the call: pop %rsi; pop %rdi; push %rax.
emit_grow_memory_ret(m) ==
  LET m1 == [Pop(m) EXCEPT !.rsi = AtRsp(m)]
      m2 == [Pop(m1) EXCEPT !.rdi = AtRsp(m1)]
  IN Push(m2, m2.rax)

\* emit_host_call up to the call: mov $funcnum, %edx; pushq %rdi;
\* pushq %rsi; lea 24(%rsp), %rsi; emit_align_stack; movabsq.
emit_host_call_call(m) ==
  LET m1 == Push(Push(m, m.rdi), m.rsi)
      m2 == [m1 EXCEPT !.rsi = m1.rsp + 24]
  IN emit_align_stack(m2)

\* emit_host_call after the call: emit_restore_stack; popq %rsi; popq %rdi;
\* retq.
emit_host_call_ret(m) ==
  LET m0 == emit_restore_stack(m)
      m1 == [Pop(m0) EXCEPT !.rsi = AtRsp(m0)]
      m2 == [Pop(m1) EXCEPT !.rdi = AtRsp(m1)]
  IN Pop(m2)

NoUpcall == [kind |-> "none", returned |-> TRUE, rspAtCall |-> 0,
             rdiAtCall |-> 0, rsiAtCall |-> 0, rspBefore |-> 0,
             left |-> [rdi |-> 0, rsi |-> 0], grew |-> FALSE,
             guarded |-> FALSE, escaped |-> FALSE]

NoStore == [valid |-> FALSE, value |-> 0, index |-> 0,
            offset |-> [h |-> 0, l |-> 0], addr |-> [h |-> 0, l |-> 0],
            written |-> [h |-> 0, l |-> 0]]

UpcallInit ==
  /\ ctx \in {1001, 1002}
  /\ membase = ctx + 1000
  /\ pages = 0
  /\ opnds = 0
  /\ cpu \in {[rdi |-> ctx, rsi |-> membase, rax |-> 0, rcx |-> 0,
               rsp |-> a, stk |-> [x \in SlotAddrs |-> 0]] :
                 a \in {8 * StackSlots, 8 * (StackSlots - 1)}}
  /\ lastUpcall = NoUpcall
  /\ lastStore = NoStore

UpcallIdle ==
  /\ ctx = 0 /\ membase = 0 /\ pages = 0 /\ opnds = 0
  /\ cpu = [rdi |-> 0, rsi |-> 0, rax |-> 0, rcx |-> 0, rsp |-> 0,
            stk |-> [x \in SlotAddrs |-> 0]]
  /\ lastUpcall = [NoUpcall EXCEPT !.returned = FALSE]
  /\ lastStore = NoStore

\* The shims whose body runs inside vm::longjmp_on_exception.
longjmp_on_exception == [host_call |-> TRUE, current_memory |-> FALSE,
                         grow_memory |-> FALSE]

Upcall(kind, before, atCall, r, grew) ==
  [kind |-> kind, returned |-> TRUE, rspAtCall |-> atCall.rsp,
   rdiAtCall |-> atCall.rdi, rsiAtCall |-> atCall.rsi,
   rspBefore |-> before.rsp, left |-> [rdi |-> r.rdi, rsi |-> r.rsi],
   grew |-> grew, guarded |-> longjmp_on_exception[kind],
   escaped |-> FALSE]

\* The host code behind the shim of this kind raises: inside
\* longjmp_on_exception the exception is caught and control leaves the
\* emitted code for good; otherwise it reaches the frame of the emitted
\* code, which has no unwind tables.
Raised(kind, before, atCall) ==
  [Upcall(kind, before, atCall, [rdi |-> atCall.rdi, rsi |-> atCall.rsi],
          FALSE)
     EXCEPT !.returned = FALSE, !.escaped = ~longjmp_on_exception[kind]]

\* What a shim may leave in the registers, with result v in rax.
ShimLeaves(v) == {[rax |-> v, rdi |-> a, rsi |-> b, rcx |-> a] :
                    a \in Junk, b \in Junk}

\* i32.const v: mov $v, %eax; push %rax.
I32Const ==
  /\ lastUpcall.returned
  /\ opnds < MaxOperands
  /\ \E v \in 0..MaxPages :
       cpu' = Push([cpu EXCEPT !.rax = v], v)
  /\ opnds' = opnds + 1
  /\ UNCHANGED <<ctx, membase, pages, lastUpcall, lastStore>>
  /\ UNCHANGED <<dvars, depthVars, stackVars, writerVars, lowerVars>>

\* The executor's memory object behind the two shims: the size in pages,
\* and growth by n pages, in place, or -1 when the maximum is exceeded.
current_linear_memory(p) == p
grow_linear_memory(p, base, n) ==
  IF p + n <= MaxPages
    THEN [ret |-> p, pages |-> p + n, base |-> base]
    ELSE [ret |-> -1, pages |-> p, base |-> base]

\* The shims current_memory(context) and grow_memory(context, pages).
current_memory(p) == current_linear_memory(p)
grow_memory(p, base, n) == grow_linear_memory(p, base, n)

\* memory.size: the emitted code and the shim current_memory.
CurrentMemory ==
  /\ lastUpcall.returned
  /\ opnds < MaxOperands
  /\ LET c == emit_current_memory_call(cpu)
     IN \E r \in ShimLeaves(current_memory(pages)) :
          /\ cpu' = emit_current_memory_ret(CallShim(c, r))
          /\ lastUpcall' = Upcall("current_memory", cpu, c, r, FALSE)
  /\ opnds' = opnds + 1
  /\ UNCHANGED <<ctx, membase, pages, lastStore>>
  /\ UNCHANGED <<dvars, depthVars, stackVars, writerVars, lowerVars>>

\* memory.grow: the emitted code and the shim grow_memory, which gets the
\* number of pages in rsi.
GrowMemory ==
  /\ lastUpcall.returned
  /\ opnds >= 1
  /\ LET c == emit_grow_memory_call(cpu)
         g == grow_memory(pages, membase, c.rsi)
     IN \/ \E r \in ShimLeaves(g.ret) :
             /\ cpu' = emit_grow_memory_ret(CallShim(c, r))
             /\ pages' = g.pages
             /\ membase' = g.base
             /\ lastUpcall' = Upcall("grow_memory", cpu, c, r,
                                     g.pages > pages)
        \/ \* the memory cannot be had: grow_linear_memory raises
           /\ g.ret = -1
           /\ cpu' = c
           /\ lastUpcall' = Raised("grow_memory", cpu, c)
           /\ UNCHANGED <<pages, membase>>
  /\ UNCHANGED <<ctx, opnds, lastStore>>
  /\ UNCHANGED <<dvars, depthVars, stackVars, writerVars, lowerVars>>

\* A call of an imported function: call of the thunk emitted by
\* emit_host_call, the shim call_host_function, and the thunk's return.
HostCall ==
  /\ lastUpcall.returned
  /\ LET c == emit_host_call_call(Push(cpu, 0))
     IN \/ \E v \in 0..1 : \E r \in ShimLeaves(v) :
             /\ cpu' = emit_host_call_ret(CallShim(c, r))
             /\ lastUpcall' = Upcall("host_call", cpu, c, r, FALSE)
        \/ \* the host function raises: longjmp_on_exception leaves the
           \* emitted code for good
           /\ cpu' = c
           /\ lastUpcall' = Raised("host_call", cpu, c)
  /\ UNCHANGED <<ctx, membase, pages, opnds, lastStore>>
  /\ UNCHANGED <<dvars, depthVars, stackVars, writerVars, lowerVars>>

\* The static offsets of the stores that are tried: 0, 8, and two with
\* bit 31 set.
Offsets == {[h |-> 0, l |-> 0], [h |-> 0, l |-> 8], [h |-> 1, l |-> 0],
            [h |-> 1, l |-> 8]}

\* emit_i32_store(offset) run on m with the 64-bit registers as [h, l]:
\* pop %rcx; pop %rax; then mov $offset, %ecx; add %rcx, %rax when bit 31
\* of the offset is set, add $offset, %rax otherwise; add %rsi, %rax;
\* movl %ecx, (%rax).
emit_i32_store(m, offset) ==
  LET W(v) == [h |-> 0, l |-> v]
      rcx1 == W(AtRsp(m))
      m1 == Pop(m)
      rax1 == W(AtRsp(m1))
      m2 == Pop(m1)
      rcx2 == IF offset.h % 2 = 1 THEN offset ELSE rcx1
      rax2 == WAdd(rax1, offset)
      rax3 == WAdd(rax2, W(m2.rsi))
  IN [m |-> [m2 EXCEPT !.rax = rax3.l, !.rcx = rcx2.l],
      addr |-> rax3, written |-> [h |-> rcx2.h % 2, l |-> rcx2.l]]

\* i32.store: the value on top of the index.
Store ==
  /\ lastUpcall.returned
  /\ opnds >= 2
  /\ \E offset \in Offsets :
       LET r == emit_i32_store(cpu, offset)
       IN /\ cpu' = r.m
          /\ lastStore' = [valid |-> TRUE, value |-> AtRsp(cpu),
                           index |-> AtRsp(Pop(cpu)), offset |-> offset,
                           addr |-> r.addr, written |-> r.written]
  /\ opnds' = opnds - 2
  /\ UNCHANGED <<ctx, membase, pages, lastUpcall>>
  /\ UNCHANGED <<dvars, depthVars, stackVars, writerVars, lowerVars>>

\* A store on its own: the value and the index are on the native stack.
StoreInit ==
  /\ ctx \in {1001, 1002}
  /\ membase = ctx + 1000
  /\ pages = 1
  /\ opnds = 2
  /\ \E a \in {8 * StackSlots, 8 * (StackSlots - 1)} :
     \E value \in {0, 1, 7, MaxInt32}, index \in {0, 1, 7, MaxInt32} :
       cpu = Push(Push([rdi |-> ctx, rsi |-> membase, rax |-> 0, rcx |-> 0,
                        rsp |-> a, stk |-> [x \in SlotAddrs |-> 0]],
                       index), value)
  /\ lastUpcall = NoUpcall
  /\ lastStore = NoStore

UpcallNext ==
  \/ I32Const
  \/ CurrentMemory
  \/ GrowMemory
  \/ HostCall

\* C5: after every return from a host upcall (import thunk, memory.size,
\* memory.grow) rdi holds the host-state pointer and rsi the base of the
\* linear memory the executor holds, also when the memory has grown.
C5_HostRegistersRestored ==
  (lastUpcall.kind # "none" /\ lastUpcall.returned) =>
     (cpu.rdi = ctx /\ cpu.rsi = membase)

\* C5 witness: memory.grow grew the memory, the shim left other values in
\* both registers, and they hold the two pointers again.
C5_Witness ==
  /\ lastUpcall.kind = "grow_memory" /\ lastUpcall.returned
  /\ lastUpcall.grew /\ pages > 0
  /\ lastUpcall.left.rdi # ctx /\ lastUpcall.left.rsi # membase
  /\ cpu.rdi = ctx /\ cpu.rsi = membase

\* C17: a store writes the value popped for it, at the address memory
\* base + index + offset, for every offset below 2^32.
C17_StoreWritesValue ==
  lastStore.valid =>
    /\ lastStore.written = [h |-> 0, l |-> lastStore.value]
    /\ lastStore.addr =
         WAdd(WAdd([h |-> 0, l |-> membase], [h |-> 0, l |-> lastStore.index]),
              lastStore.offset)

\* C19: every transition into host code runs the host code inside the
\* exception-capturing handler, and no exception raised by host code
\* reaches a frame of the emitted code.
C19_HostCodeGuarded ==
  lastUpcall.kind # "none" => lastUpcall.guarded /\ ~lastUpcall.escaped

\* C20: at the call instruction that enters the shim of memory.size or
\* memory.grow rsp is a multiple of 16, and after the lowering the result
\* is on top of the native stack at the slot of the operand it replaces
\* or follows.
C20_MemoryUpcallAligned ==
  (lastUpcall.kind \in {"current_memory", "grow_memory"}
     /\ lastUpcall.returned) =>
    /\ lastUpcall.rspAtCall % 16 = 0
    /\ cpu.rsp = IF lastUpcall.kind = "current_memory"
                 THEN lastUpcall.rspBefore - 8 ELSE lastUpcall.rspBefore

(***************************************************************************)
(* x86_64.hpp: the writer object, its code segment and its relocations.    *)
(* An address is a 64-bit number [h, l]; a place in the code segment is    *)
(* its offset from _code_segment_base.                                     *)
(***************************************************************************)
MaxEmits == 2      \* instructions emitted into function bodies

\* The low 32 bits of w as four bytes, lowest first (memcpy of a uint32_t).
LE32(w) == <<w.l % 256, (w.l \div 256) % 256, (w.l \div 65536) % 256,
             (w.l \div 16777216) + 128 * (w.h % 2)>>

\* The address of offset o of the code segment.
Addr(o) == [h |-> 1, l |-> o]

\* growable_allocator: the code segment.  op is the member called; a store
\* into the segment is the op "write".
allocator(a, op, n) ==
  LET f == a.fault \/ a.phase # "writable"
  IN CASE op = "start_code" ->
            [a EXCEPT !.phase = "writable", !.starts = @ + 1]
       [] op = "alloc" -> [a EXCEPT !.top = @ + n, !.fault = f]
       [] op = "reclaim" -> [a EXCEPT !.top = @ - n, !.fault = f]
       [] op = "write" -> [a EXCEPT !.fault = f]
       [] op = "end_code" ->
            [a EXCEPT !.phase = "executable", !.ends = @ + 1]

\* fix_branch without the range check.
fix_branch_truncating(old, branch, target) ==
  [exc |-> FALSE,
   bytes |-> LE32(WSub(target, WAdd(branch, [h |-> 0, l |-> 4])))]

\* fix_branch on the four bytes old at branch: [exc, bytes].
fix_branch(old, branch, target) ==
  LET d == WSub(target, WAdd(branch, [h |-> 0, l |-> 4]))
      relative == LE32(d)
  IN IF d.h > 0 \/ d.h < -1 THEN [exc |-> TRUE, bytes |-> old]
     ELSE [exc |-> FALSE, bytes |-> relative]

\* The entry points of the four error handlers the constructor emits.
handlers == [fpe |-> 0, call_indirect |-> 16, type_error |-> 32,
             stack_overflow |-> 48]

\* The writer before its constructor has run.
\*   code, code_end : the members code and _code_end (offsets)
\*   relocs         : _function_relocations, a slot per function
\*   bytes          : the four bytes at every branch site emitted so far
\*   exc            : an exception is leaving the member that was called
\*   cur, emitted   : the function body being emitted (-1: none) and the
\*                    instructions emitted into bodies so far
\*   regs, starts   : the calls of register_call and of start_function
NoWriter == [life |-> "unborn", code |-> 0, code_end |-> 0, relocs |-> <<>>,
             bytes |-> <<>>, exc |-> FALSE, cur |-> -1, emitted |-> 0,
             regs |-> {}, starts |-> [f \in 0..(NumFuncs - 1) |-> -1]]

\* emit_bytes of n bytes other than a branch site.
emit_bytes(w, n) == [w EXCEPT !.code = @ + n]

\* emit_branch_target32: the site is w.code before the call.
emit_branch_target32(w) ==
  LET a == Addr(w.code)
      v == WSub([h |-> 1, l |-> 1588444911], [h |-> a.h % 2, l |-> a.l])
  IN [w EXCEPT !.bytes = (w.code :> LE32(v)) @@ @, !.code = @ + 4]

\* fix_branch called by the writer on one of its sites.
FixAt(w, site, target) ==
  IF w.exc THEN w
  ELSE LET r == fix_branch(w.bytes[site], Addr(site), target)
       IN [w EXCEPT !.bytes[site] = r.bytes, !.exc = r.exc]

\* vec.resize(n): new slots hold an empty list of sites.
resize(vec, n) ==
  IF Len(vec) >= n THEN vec
  ELSE vec \o [i \in 1..(n - Len(vec)) |->
                 [resolved |-> FALSE, sites |-> <<>>, addr |-> 0]]

register_call(w, ptr, funcnum) ==
  LET vec == resize(w.relocs, funcnum + 1)
      slot == vec[funcnum + 1]
      w1 == [w EXCEPT !.relocs = vec, !.regs = @ \cup {<<ptr, funcnum>>}]
  IN IF w.exc THEN w
     ELSE IF slot.resolved THEN FixAt(w1, ptr, Addr(slot.addr))
     ELSE [w1 EXCEPT !.relocs[funcnum + 1].sites = Append(@, ptr)]

\* start_function that resolves the slot and leaves the pending sites.
start_function_forgets(w, func_start, funcnum) ==
  LET vec == resize(w.relocs, funcnum + 1)
  IN [w EXCEPT !.relocs = [vec EXCEPT ![funcnum + 1] =
                             [resolved |-> TRUE, sites |-> <<>>,
                              addr |-> func_start]],
               !.starts[funcnum] = func_start]

\* std::get of the list of sites throws when the slot holds an address.
start_function(w, func_start, funcnum) ==
  LET vec == resize(w.relocs, funcnum + 1)
      slot == vec[funcnum + 1]
      RECURSIVE fixAll(_, _)
      fixAll(x, i) == IF i > Len(slot.sites) THEN x
                      ELSE fixAll(FixAt(x, slot.sites[i], Addr(func_start)),
                                  i + 1)
      w1 == fixAll([w EXCEPT !.relocs = vec,
                             !.starts[funcnum] = func_start], 1)
  IN IF w.exc THEN w
     ELSE IF slot.resolved THEN [w EXCEPT !.exc = TRUE]
     ELSE IF w1.exc THEN w1
     ELSE [w1 EXCEPT !.relocs[funcnum + 1] =
                       [resolved |-> TRUE, sites |-> <<>>,
                        addr |-> func_start]]

\* The imported functions are 0 .. num_imported - 1.
num_imported == 1

\* Constructor: the jump-table entries from slot i on.
RECURSIVE jump_table(_, _)
jump_table(w, i) ==
  IF i >= table_size THEN w
  ELSE IF table[i] < NumFuncs
  THEN LET w1 == emit_branch_target32(emit_bytes(w, 8))
           w2 == register_call(w1, w1.code - 4, table[i])
           w3 == emit_branch_target32(emit_bytes(w2, 1))
       IN jump_table(FixAt(w3, w3.code - 4, Addr(handlers.type_error)),
                     i + 1)
  ELSE LET w1 == emit_branch_target32(emit_bytes(w, 1))
       IN jump_table(emit_bytes(FixAt(w1, w1.code - 4,
                                      Addr(handlers.call_indirect)), 12),
                     i + 1)

\* Constructor: the thunks of the imported functions from i on.
RECURSIVE host_functions(_, _)
host_functions(w, i) ==
  IF i >= num_imported THEN w
  ELSE host_functions(emit_bytes(start_function(w, w.code, i), 40), i + 1)

\* The constructor that does not open the segment.
machine_code_writer_without_start_code(a) ==
  LET a3 == allocator(allocator(allocator(allocator(a, "alloc", 64),
               "alloc", 40 * num_imported), "alloc", 17 * table_size),
               "write", 0)
      w1 == host_functions([NoWriter EXCEPT !.life = "alive", !.code = 64],
                           0)
  IN [a |-> a3, w |-> jump_table(w1, 0)]

\* The constructor: [a, w], the segment and the writer after it.
machine_code_writer(a) ==
  LET a0 == allocator(a, "start_code", 0)
      a1 == allocator(allocator(a0, "alloc", 64), "write", 0)
      w0 == [NoWriter EXCEPT !.life = "alive", !.code = 64, !.code_end = 64]
      a2 == allocator(allocator(a1, "alloc", 40 * num_imported), "write", 0)
      w1 == host_functions(w0, 0)
      a3 == allocator(allocator(a2, "alloc", 17 * table_size), "write", 0)
      w2 == jump_table(w1, 0)
  IN [a |-> a3, w |-> [w2 EXCEPT !.code_end = w2.code]]

\* The displacements fix_branch is tried with: near ones, the two ends of
\* the 32-bit signed range, the first values beyond them, and values that
\* differ from a near one by 2^32.
Displacements ==
  {[h |-> 0, l |-> 0], [h |-> 0, l |-> 5], [h |-> -1, l |-> MaxInt32],
   [h |-> -1, l |-> MaxInt32 - 63], [h |-> 0, l |-> MaxInt32],
   [h |-> 1, l |-> 0], [h |-> -1, l |-> 0], [h |-> -2, l |-> MaxInt32],
   [h |-> 2, l |-> 5], [h |-> -2, l |-> 0]}

NoFix == [valid |-> FALSE, branch |-> Addr(0), target |-> Addr(0),
          before |-> <<>>, after |-> <<>>, exc |-> FALSE]

WriterInit ==
  /\ arena = [phase |-> "none", starts |-> 0, ends |-> 0, top |-> 0,
              fault |-> FALSE]
  /\ mcw = NoWriter
  /\ lastFix = NoFix

\* machine_code_writer(alloc, source_bytes, mod)
WriterConstruct ==
  /\ mcw.life = "unborn"
  /\ LET r == machine_code_writer(arena)
     IN arena' = r.a /\ mcw' = r.w
  /\ UNCHANGED lastFix
  /\ UNCHANGED <<dvars, depthVars, stackVars, upcallVars, lowerVars>>

\* emit_prologue of an internal function without locals whose body takes
\* 2 * MaxEmits bytes of Wasm.
EmitPrologue ==
  /\ mcw.life = "alive" /\ ~mcw.exc /\ mcw.cur = -1
  /\ \E funcnum \in 0..(NumFuncs - 1 - num_imported) :
       LET code_size == 21 + (2 * MaxEmits) * 79 + 10
           f == funcnum + num_imported
           w1 == [mcw EXCEPT !.code = arena.top,
                             !.code_end = arena.top + code_size,
                             !.cur = f]
       IN /\ mcw.starts[f] = -1
          /\ arena' = allocator(allocator(arena, "alloc", code_size),
                                "write", 0)
          /\ mcw' = emit_bytes(start_function(w1, w1.code, f), 4)
  /\ UNCHANGED lastFix
  /\ UNCHANGED <<dvars, depthVars, stackVars, upcallVars, lowerVars>>

\* emit_call of a function without parameters and results.
EmitCallSite ==
  /\ mcw.life = "alive" /\ ~mcw.exc /\ mcw.cur # -1
  /\ mcw.emitted < MaxEmits
  /\ \E funcnum \in 0..(NumFuncs - 1) :
       LET w1 == emit_branch_target32(emit_bytes(mcw, 4))
           w2 == FixAt(w1, w1.code - 4, Addr(handlers.stack_overflow))
           w3 == emit_branch_target32(emit_bytes(w2, 1))
           w4 == register_call(w3, w3.code - 4, funcnum)
       IN mcw' = [emit_bytes(w4, 2) EXCEPT !.emitted = @ + 1]
  /\ arena' = allocator(arena, "write", 0)
  /\ UNCHANGED lastFix
  /\ UNCHANGED <<dvars, depthVars, stackVars, upcallVars, lowerVars>>

\* emit_br followed by fix_branch of its site, once the target is known.
EmitBranch ==
  /\ mcw.life = "alive" /\ ~mcw.exc /\ mcw.cur # -1
  /\ mcw.emitted < MaxEmits
  /\ \E d \in Displacements :
       LET w1 == emit_branch_target32(emit_bytes(mcw, 1))
           site == w1.code - 4
           target == WAdd(WAdd(Addr(site), [h |-> 0, l |-> 4]), d)
           w2 == FixAt(w1, site, target)
       IN /\ mcw' = [w2 EXCEPT !.emitted = @ + 1]
          /\ lastFix' = [valid |-> TRUE, branch |-> Addr(site),
                         target |-> target, before |-> w1.bytes[site],
                         after |-> w2.bytes[site], exc |-> w2.exc]
  /\ arena' = allocator(arena, "write", 0)
  /\ UNCHANGED <<dvars, depthVars, stackVars, upcallVars, lowerVars>>

\* finalize(body)
Finalize ==
  /\ mcw.life = "alive" /\ ~mcw.exc /\ mcw.cur # -1
  /\ arena' = allocator(arena, "reclaim", mcw.code_end - mcw.code)
  /\ mcw' = [mcw EXCEPT !.cur = -1, !.code_end = mcw.code]
  /\ UNCHANGED lastFix
  /\ UNCHANGED <<dvars, depthVars, stackVars, upcallVars, lowerVars>>

\* ~machine_code_writer(): at the end of the module, or when an exception
\* unwinds the parser that owns the writer.
WriterDestroy ==
  /\ mcw.life = "alive"
  /\ arena' = allocator(arena, "end_code", 0)
  /\ mcw' = [mcw EXCEPT !.life = "destroyed"]
  /\ UNCHANGED lastFix
  /\ UNCHANGED <<dvars, depthVars, stackVars, upcallVars, lowerVars>>

WriterNext ==
  \/ WriterConstruct
  \/ EmitPrologue
  \/ EmitCallSite
  \/ EmitBranch
  \/ Finalize
  \/ WriterDestroy

(***************************************************************************)
(* Properties of the writer.                                               *)
(***************************************************************************)

\* C12: fix_branch writes the displacement d = target - (branch + 4) as 32
\* bits, lowest byte first, when -2^31 <= d <= 2^31 - 1, so that branch + 4
\* plus the signed value of the bytes is target; otherwise it raises an
\* exception and the four bytes stay as they were.
C12_FixBranchExact ==
  lastFix.valid =>
    LET next == WAdd(lastFix.branch, [h |-> 0, l |-> 4])
        d == WSub(lastFix.target, next)
        b == lastFix.after
        signed == [h |-> IF b[4] >= 128 THEN -1 ELSE 0,
                   l |-> b[1] + 256 * b[2] + 65536 * b[3]
                           + 16777216 * (b[4] % 128)]
    IN IF d.h \in {-1, 0}
       THEN ~lastFix.exc /\ WAdd(next, signed) = lastFix.target
       ELSE lastFix.exc /\ lastFix.after = lastFix.before

\* C12 witness: the displacement -2^31 was written as 00 00 00 80 over the
\* placeholder.
C12_Witness ==
  /\ lastFix.valid /\ ~lastFix.exc
  /\ lastFix.after = <<0, 0, 0, 128>>
  /\ lastFix.before # lastFix.after
  /\ WSub(lastFix.target, lastFix.branch) = [h |-> -1, l |-> 4]

\* C13: start_code is called once, by the constructor, before any alloc;
\* every alloc, reclaim and store into the segment happens while it is
\* writable, before end_code<true>, which the destructor calls once; the
\* segment is writable while the writer lives and executable afterwards.
C13_ArenaProtocol ==
  /\ ~arena.fault
  /\ mcw.life = "unborn" =>
       arena.starts = 0 /\ arena.ends = 0 /\ arena.phase = "none"
  /\ mcw.life = "alive" =>
       arena.starts = 1 /\ arena.ends = 0 /\ arena.phase = "writable"
  /\ mcw.life = "destroyed" =>
       arena.starts = 1 /\ arena.ends = 1 /\ arena.phase = "executable"

\* C13 witness: a writer that emitted a body with a branch fix-up and gave
\* back the rest of its allocation has been destroyed.
C13_Witness ==
  /\ mcw.life = "destroyed" /\ arena.phase = "executable"
  /\ mcw.emitted > 0 /\ mcw.cur = -1 /\ ~mcw.exc
  /\ arena.top = mcw.code

\* C18: every site registered for a function that has been started holds
\* the displacement to the function's address, whether it was registered
\* before or after the start; and once every function has been started,
\* every slot holds an address and no site is pending.
C18_RelocationsResolved ==
  /\ \A r \in mcw.regs :
       mcw.starts[r[2]] # -1 =>
         mcw.bytes[r[1]] =
           LE32(WSub(Addr(mcw.starts[r[2]]),
                     WAdd(Addr(r[1]), [h |-> 0, l |-> 4])))
  /\ (\A f \in 0..(NumFuncs - 1) : mcw.starts[f] # -1) =>
       /\ Len(mcw.relocs) = NumFuncs
       /\ \A i \in 1..Len(mcw.relocs) :
            /\ mcw.relocs[i].resolved /\ mcw.relocs[i].sites = <<>>
            /\ mcw.relocs[i].addr = mcw.starts[i - 1]

\* C18 witness: every function has been started, and one of them has a
\* site registered before its start and a site registered after it.
C18_Witness ==
  /\ \A f \in 0..(NumFuncs - 1) : mcw.starts[f] # -1
  /\ \E p \in mcw.regs, q \in mcw.regs :
       /\ p[2] = q[2] /\ p[2] >= num_imported
       /\ p[1] < mcw.starts[p[2]] /\ mcw.starts[p[2]] < q[1]
       /\ mcw.bytes[p[1]] # mcw.bytes[q[1]]

(***************************************************************************)
(* x86_64.hpp: lowerings checked on drawn operands.  A register or a stack *)
(* slot of 64 bits is a sequence of four 16-bit limbs, lowest first; a     *)
(* 32-bit operation reads the two low limbs and writes zero to the two     *)
(* high limbs of the register it writes.                                   *)
(***************************************************************************)
NoCalc == [op |-> "none", in |-> <<>>, done |-> FALSE, out |-> <<>>]

LowerIdle == calc = NoCalc /\ slots = <<>>

Zero(k) == [i \in 1..k |-> 0]
Ones(k) == [i \in 1..k |-> 65535]
lo32(x) == <<x[1], x[2]>>
zx64(x) == <<x[1], x[2], 0, 0>>

\* Two's complement on limbs: sign, complement, negation, magnitude.
IsNeg(x) == x[Len(x)] >= 32768
RECURSIVE Inc(_, _)
Inc(x, i) ==
  IF i > Len(x) THEN x
  ELSE IF x[i] = 65535 THEN Inc([x EXCEPT ![i] = 0], i + 1)
  ELSE [x EXCEPT ![i] = @ + 1]
Neg(x) == Inc([i \in 1..Len(x) |-> 65535 - x[i]], 1)
Abs(x) == IF IsNeg(x) THEN Neg(x) ELSE x

\* Unsigned comparison and subtraction (x >= y) on limbs.
RECURSIVE ULtFrom(_, _, _)
ULtFrom(x, y, i) ==
  IF i = 0 THEN FALSE
  ELSE IF x[i] # y[i] THEN x[i] < y[i]
  ELSE ULtFrom(x, y, i - 1)
ULt(x, y) == ULtFrom(x, y, Len(x))
RECURSIVE BorrowIn(_, _, _)
BorrowIn(x, y, i) ==
  IF i = 1 THEN 0
  ELSE IF x[i - 1] - y[i - 1] - BorrowIn(x, y, i - 1) < 0 THEN 1 ELSE 0
USub(x, y) ==
  [i \in 1..Len(x) |-> (x[i] - y[i] - BorrowIn(x, y, i) + 65536) % 65536]

Pow2(n) == CASE n = 0 -> 1 [] n = 1 -> 2 [] n = 2 -> 4 [] n = 3 -> 8
             [] n = 4 -> 16 [] n = 5 -> 32 [] n = 6 -> 64 [] n = 7 -> 128
             [] n = 8 -> 256 [] n = 9 -> 512 [] n = 10 -> 1024
             [] n = 11 -> 2048 [] n = 12 -> 4096 [] n = 13 -> 8192
             [] n = 14 -> 16384 [] n = 15 -> 32768
BitOf(x, i) == (x[(i \div 16) + 1] \div Pow2(i % 16)) % 2
Shl1(x, bit) ==
  [i \in 1..Len(x) |->
     ((x[i] * 2) % 65536) + (IF i = 1 THEN bit ELSE x[i - 1] \div 32768)]

\* Unsigned division of m by d # 0, bit by bit from the top: the quotient
\* and the remainder the divider of the processor produces.
UDivStep(m, d, i, st) ==
  CHOOSE o \in {IF ULt(r1, d) THEN [q |-> st.q, r |-> r1]
                ELSE [q |-> [st.q EXCEPT ![(i \div 16) + 1]
                                           = @ + Pow2(i % 16)],
                      r |-> USub(r1, d)] :
                  r1 \in {Shl1(st.r, BitOf(m, i))}} : TRUE
RECURSIVE UDivFrom(_, _, _, _)
UDivFrom(m, d, i, st) ==
  IF i < 0 THEN st
  ELSE CHOOSE out \in {UDivFrom(m, d, i - 1, s) :
                         s \in {UDivStep(m, d, i, st)}} : TRUE
UDiv(m, d) ==
  CHOOSE out \in {UDivFrom(mm, dd, 16 * Len(mm) - 1,
                           [q |-> Zero(Len(mm)), r |-> Zero(Len(mm))]) :
                    mm \in {m}, dd \in {d}} : TRUE

\* cdq; idiv %ecx (two limbs) and cqo; idiv %rcx (four limbs): the dividend
\* is the sign extension of a.  The quotient is truncated toward zero and
\* the remainder has the sign of the dividend; a zero divisor, and a
\* quotient that does not fit the width, raise the divide error.
idiv(a, b) ==
  IF b = Zero(Len(b)) THEN [de |-> TRUE, q |-> a, r |-> a]
  ELSE CHOOSE out \in
         {IF IsNeg(a) = IsNeg(b) /\ IsNeg(u.q)
          THEN [de |-> TRUE, q |-> a, r |-> a]
          ELSE [de |-> FALSE,
                q |-> IF IsNeg(a) # IsNeg(b) THEN Neg(u.q) ELSE u.q,
                r |-> IF IsNeg(a) THEN Neg(u.r) ELSE u.r] :
            u \in {UDiv(Abs(a), Abs(b))}} : TRUE

\* The registers and the native stack a lowering runs on; de: the divide
\* error was raised, executed: the instructions that ran, in order.
Machine(stk) == [rax |-> Zero(4), rcx |-> Zero(4), rdx |-> Ones(4),
                 stk |-> stk, de |-> FALSE, executed |-> <<>>]

\* emit_i32_rem_s without the test for the divisor -1.
emit_i32_rem_s_always_divides(m) ==
  LET n == Len(m.stk)
      rcx == m.stk[n]
      rax == m.stk[n - 1]
  IN CHOOSE out \in
       {[m EXCEPT !.rcx = rcx, !.rax = zx64(d.q), !.rdx = zx64(d.r),
                  !.de = d.de, !.executed = <<"cdq", "idiv">>,
                  !.stk = IF d.de THEN SubSeq(m.stk, 1, n - 2)
                          ELSE Append(SubSeq(m.stk, 1, n - 2), zx64(d.r))] :
          d \in {idiv(lo32(rax), lo32(rcx))}} : TRUE

\* emit_i32_rem_s: pop %rcx; pop %rax; cmp $-1, %ecx; je MINUS1; cdq;
\* idiv %ecx; jmp END; MINUS1: xor %edx, %edx; END: push %rdx.
emit_i32_rem_s(m) ==
  LET n == Len(m.stk)
      rcx == m.stk[n]
      rax == m.stk[n - 1]
      rest == SubSeq(m.stk, 1, n - 2)
  IN IF lo32(rcx) = Ones(2)
     THEN [m EXCEPT !.rcx = rcx, !.rax = rax, !.rdx = Zero(4),
                    !.executed = <<"xor">>,
                    !.stk = Append(rest, Zero(4))]
     ELSE CHOOSE out \in
            {IF d.de
             THEN [m EXCEPT !.rcx = rcx, !.rax = rax, !.de = TRUE,
                            !.executed = <<"cdq", "idiv">>, !.stk = rest]
             ELSE [m EXCEPT !.rcx = rcx, !.rax = zx64(d.q),
                            !.rdx = zx64(d.r),
                            !.executed = <<"cdq", "idiv">>,
                            !.stk = Append(rest, zx64(d.r))] :
               d \in {idiv(lo32(rax), lo32(rcx))}} : TRUE

\* emit_i64_rem_s: the same sequence on the 64-bit registers (cmp $-1,
\* %rcx; cqo; idiv %rcx), with xor %edx, %edx clearing all of rdx.
emit_i64_rem_s(m) ==
  LET n == Len(m.stk)
      rcx == m.stk[n]
      rax == m.stk[n - 1]
      rest == SubSeq(m.stk, 1, n - 2)
  IN IF rcx = Ones(4)
     THEN [m EXCEPT !.rcx = rcx, !.rax = rax, !.rdx = Zero(4),
                    !.executed = <<"xor">>,
                    !.stk = Append(rest, Zero(4))]
     ELSE CHOOSE out \in
            {IF d.de
             THEN [m EXCEPT !.rcx = rcx, !.rax = rax, !.de = TRUE,
                            !.executed = <<"cqo", "idiv">>, !.stk = rest]
             ELSE [m EXCEPT !.rcx = rcx, !.rax = d.q, !.rdx = d.r,
                            !.executed = <<"cqo", "idiv">>,
                            !.stk = Append(rest, d.r)] :
               d \in {idiv(rax, rcx)}} : TRUE

\* The operands rem_s is tried on: the ends of the signed range, values
\* around zero, and values whose low half or low limbs are all ones.
I32Values ==
  {<<0, 32768, 0, 0>>, <<1, 32768, 0, 0>>, <<65535, 32767, 0, 0>>,
   <<65535, 65535, 0, 0>>, <<65534, 65535, 0, 0>>, <<65529, 65535, 0, 0>>,
   <<0, 0, 0, 0>>, <<1, 0, 0, 0>>, <<2, 0, 0, 0>>, <<7, 0, 0, 0>>,
   <<65535, 0, 0, 0>>, <<0, 1, 0, 0>>}
I64Values ==
  {<<0, 0, 0, 32768>>, <<1, 0, 0, 32768>>, <<65535, 65535, 65535, 32767>>,
   <<65535, 65535, 65535, 65535>>, <<65534, 65535, 65535, 65535>>,
   <<65529, 65535, 65535, 65535>>, <<0, 0, 65535, 65535>>,
   <<0, 0, 0, 0>>, <<1, 0, 0, 0>>, <<2, 0, 0, 0>>, <<7, 0, 0, 0>>,
   <<65535, 65535, 0, 0>>, <<0, 0, 1, 0>>}

RemInputs ==
  {[op |-> "i32.rem_s", in |-> [a |-> a, b |-> b], done |-> FALSE,
    out |-> <<>>] : a \in I32Values, b \in I32Values \ {Zero(4)}}
  \cup {[op |-> "i64.rem_s", in |-> [a |-> a, b |-> b], done |-> FALSE,
         out |-> <<>>] : a \in I64Values, b \in I64Values \ {Zero(4)}}

\* The code of i32.rem_s or of i64.rem_s runs on the two operands.
RemS ==
  /\ calc.op \in {"i32.rem_s", "i64.rem_s"} /\ ~calc.done
  /\ calc' = [calc EXCEPT
               !.done = TRUE,
               !.out = IF calc.op = "i32.rem_s"
                       THEN emit_i32_rem_s(Machine(<<calc.in.a, calc.in.b>>))
                       ELSE emit_i64_rem_s(Machine(<<calc.in.a, calc.in.b>>))]
  /\ UNCHANGED slots
  /\ UNCHANGED <<dvars, depthVars, stackVars, upcallVars, writerVars>>

\* The signed remainder of Wasm: the magnitude of a modulo the magnitude
\* of b, with the sign of a.
irem_s(a, b) ==
  CHOOSE out \in {IF IsNeg(a) THEN Neg(u.r) ELSE u.r :
                    u \in {UDiv(Abs(a), Abs(b))}} : TRUE

sx64(x) == IF x[2] >= 32768 THEN <<x[1], x[2], 65535, 65535>>
           ELSE <<x[1], x[2], 0, 0>>
RECURSIVE CarryIn17(_, _)
CarryIn17(x, i) ==
  IF i = 1 THEN 0 ELSE (x[i - 1] * 17 + CarryIn17(x, i - 1)) \div 65536
Mul17(x) == [i \in 1..Len(x) |-> (x[i] * 17 + CarryIn17(x, i)) % 65536]

\* emit_call_indirect, from pop %rax to callq *%rax, for a table of size
\* entries: cmp $size, %rax (imm32, sign-extended); jae ERROR; leaq
\* table(%rip), %rdx; imul $17, %eax, %eax; addq %rdx, %rax.  off is the
\* target of the call as an offset from the table base.
emit_call_indirect_target(rax, size) ==
  IF ~ULt(rax, sx64(size)) THEN [to |-> "call_indirect_error", off |-> Zero(4)]
  ELSE [to |-> "table", off |-> zx64(Mul17(lo32(rax)))]

\* Table sizes and indices around the values where 17 * index reaches 2^32
\* and where the size reaches 2^31.
TableSizes ==
  {<<1, 0>>, <<3, 0>>, <<3855, 3855>>, <<3856, 3855>>, <<3857, 3855>>,
   <<65535, 32767>>, <<0, 32768>>, <<65535, 65535>>}
TableIndices ==
  {<<0, 0, 0, 0>>, <<1, 0, 0, 0>>, <<2, 0, 0, 0>>, <<3, 0, 0, 0>>,
   <<3854, 3855, 0, 0>>, <<3855, 3855, 0, 0>>, <<3856, 3855, 0, 0>>,
   <<65534, 32767, 0, 0>>, <<65535, 32767, 0, 0>>, <<65534, 65535, 0, 0>>}

CallIndirectInputs ==
  {[op |-> "call_indirect", in |-> [rax |-> i, size |-> n], done |-> FALSE,
    out |-> <<>>] : i \in TableIndices, n \in TableSizes}

\* The code of call_indirect computes the address it calls.
CallIndirectTarget ==
  /\ calc.op = "call_indirect" /\ ~calc.done
  /\ calc' = [calc EXCEPT
               !.done = TRUE,
               !.out = emit_call_indirect_target(calc.in.rax, calc.in.size)]
  /\ UNCHANGED slots
  /\ UNCHANGED <<dvars, depthVars, stackVars, upcallVars, writerVars>>

MaxCases == 4      \* cases of a br_table, without the default

\* Values of depth_change (dc below): none, two operands to drop, the return marker.
DepthChanges == {<<0, 0>>, <<2, 0>>, <<1, 32768>>}
Limbs2(n) == <<n % 65536, n \div 65536>>

NoGen == [started |-> FALSE, stack |-> <<>>, _i |-> 0, code |-> <<>>,
          ret |-> <<>>, leaf |-> <<>>, failed |-> FALSE, closed |-> FALSE]

\* emit_case with the two halves pushed in the other order.
RECURSIVE emit_case_right_first(_, _)
emit_case_right_first(g, dc) ==
  IF g.stack = <<>> THEN [g EXCEPT !.failed = TRUE]
  ELSE
    LET it == g.stack[Len(g.stack)]
        rest == SubSeq(g.stack, 1, Len(g.stack) - 1)
        code1 == IF it.label # 0
                 THEN [g.code EXCEPT ![it.label].target = Len(g.code) + 1]
                 ELSE g.code
    IN IF it.max - it.min > 1 THEN
         LET mid == it.min + (it.max - it.min) \div 2
             code2 == code1 \o <<[op |-> "cmp_eax", imm |-> mid, target |-> 0],
                                 [op |-> "jae", imm |-> 0, target |-> 0]>>
         IN CHOOSE out \in {emit_case_right_first(s, dc) : s \in
              {[g EXCEPT !.code = code2,
                         !.stack = rest \o
                           <<[min |-> it.min, max |-> mid, label |-> 0],
                             [min |-> mid, max |-> it.max,
                              label |-> Len(code2)]>>]}} : TRUE
       ELSE
         LET bad == g.failed \/ it.min # g._i
             direct == dc = <<0, 0>> \/ dc = <<1, 32768>>
         IN IF direct /\ it.label # 0
            THEN [g EXCEPT !.stack = rest, !.code = code1, !._i = @ + 1,
                           !.failed = bad, !.ret = Append(@, it.label),
                           !.leaf = Append(@, it.min)]
            ELSE
              LET code2 == code1 \o
                     (IF direct THEN <<>>
                      ELSE <<[op |-> "multipop", imm |-> dc[1],
                              target |-> 0]>>)
                     \o <<[op |-> "jmp", imm |-> 0, target |-> 0]>>
              IN [g EXCEPT !.stack = rest, !.code = code2, !._i = @ + 1,
                           !.failed = bad, !.ret = Append(@, Len(code2)),
                           !.leaf = Append(@, it.min)]

\* emit_case: the loop runs until it has emitted a leaf.  It pops the
\* range at the back, binds the branch that leads to it, and either splits
\* the range with cmp $mid, %eax; jae MID or closes it with a jump whose
\* label it returns.
RECURSIVE emit_case(_, _)
emit_case(g, dc) ==
  IF g.stack = <<>> THEN [g EXCEPT !.failed = TRUE]
  ELSE
    LET it == g.stack[Len(g.stack)]
        rest == SubSeq(g.stack, 1, Len(g.stack) - 1)
        code1 == IF it.label # 0
                 THEN [g.code EXCEPT ![it.label].target = Len(g.code) + 1]
                 ELSE g.code
    IN IF it.max - it.min > 1 THEN
         LET mid == it.min + (it.max - it.min) \div 2
             code2 == code1 \o <<[op |-> "cmp_eax", imm |-> mid, target |-> 0],
                                 [op |-> "jae", imm |-> 0, target |-> 0]>>
         IN CHOOSE out \in {emit_case(s, dc) : s \in
              {[g EXCEPT !.code = code2,
                         !.stack = rest \o
                           <<[min |-> mid, max |-> it.max,
                              label |-> Len(code2)],
                             [min |-> it.min, max |-> mid, label |-> 0]>>]}}
              : TRUE
       ELSE
         LET bad == g.failed \/ it.min # g._i
             direct == dc = <<0, 0>> \/ dc = <<1, 32768>>
         IN IF direct /\ it.label # 0
            THEN [g EXCEPT !.stack = rest, !.code = code1, !._i = @ + 1,
                           !.failed = bad, !.ret = Append(@, it.label),
                           !.leaf = Append(@, it.min)]
            ELSE
              LET code2 == code1 \o
                     (IF direct THEN <<>>
                      ELSE <<[op |-> "multipop", imm |-> dc[1],
                              target |-> 0]>>)
                     \o <<[op |-> "jmp", imm |-> 0, target |-> 0]>>
              IN [g EXCEPT !.stack = rest, !.code = code2, !._i = @ + 1,
                           !.failed = bad, !.ret = Append(@, Len(code2)),
                           !.leaf = Append(@, it.min)]

BrTableInputs ==
  {[op |-> "br_table", in |-> n, done |-> FALSE, out |-> NoGen] :
     n \in 0..MaxCases}

\* emit_br_table(table_size): pop %rax, and one range for all the cases
\* and the default.
EmitBrTable ==
  /\ calc.op = "br_table" /\ ~calc.out.started
  /\ calc' = [calc EXCEPT
               !.out = [NoGen EXCEPT
                  !.started = TRUE,
                  !.code = <<[op |-> "pop_rax", imm |-> 0, target |-> 0]>>,
                  !.stack = <<[min |-> 0, max |-> calc.in + 1,
                               label |-> 0]>>]]
  /\ UNCHANGED slots
  /\ UNCHANGED <<dvars, depthVars, stackVars, upcallVars, writerVars>>

\* The parser calls emit_case once for each case of the table.
EmitCase ==
  /\ calc.op = "br_table" /\ calc.out.started
  /\ Len(calc.out.ret) < calc.in
  /\ \E d \in DepthChanges :
       calc' = [calc EXCEPT !.out = emit_case(calc.out, d)]
  /\ UNCHANGED slots
  /\ UNCHANGED <<dvars, depthVars, stackVars, upcallVars, writerVars>>

\* emit_default: emit_case for the default, and the stack must be empty.
EmitDefault ==
  /\ calc.op = "br_table" /\ calc.out.started /\ ~calc.done
  /\ Len(calc.out.ret) = calc.in
  /\ \E d \in DepthChanges :
       LET g == emit_case(calc.out, d)
       IN calc' = [calc EXCEPT
                    !.done = TRUE,
                    !.out = [g EXCEPT !.closed = TRUE,
                                      !.failed = g.failed \/ g.stack # <<>>]]
  /\ UNCHANGED slots
  /\ UNCHANGED <<dvars, depthVars, stackVars, upcallVars, writerVars>>

\* The emitted code run on a selector: the call that returned the label
\* of the jump taken (0 if the code runs off its end or into an unfixed
\* branch), and the comparisons made on the way.  v is the selector as
\* two 16-bit limbs; jae is the unsigned comparison.
RECURSIVE Route(_, _, _, _, _)
Route(g, pc, v, flag, cmps) ==
  IF pc < 1 \/ pc > Len(g.code) THEN [call |-> 0, cmps |-> cmps]
  ELSE
    LET ins == g.code[pc]
        here == {k \in 1..Len(g.ret) : g.ret[k] = pc}
    IN CASE ins.op = "pop_rax" -> Route(g, pc + 1, v, flag, cmps)
         [] ins.op = "multipop" -> Route(g, pc + 1, v, flag, cmps)
         [] ins.op = "cmp_eax" ->
              Route(g, pc + 1, v, ~ULt(v, Limbs2(ins.imm)), cmps + 1)
         [] ins.op = "jae" ->
              IF ~flag THEN Route(g, pc + 1, v, flag, cmps)
              ELSE IF here # {}
                   THEN [call |-> CHOOSE k \in here : TRUE, cmps |-> cmps]
                   ELSE Route(g, ins.target, v, flag, cmps)
         [] OTHER ->
              IF here # {}
              THEN [call |-> CHOOSE k \in here : TRUE, cmps |-> cmps]
              ELSE [call |-> 0, cmps |-> cmps]

Selectors ==
  {Limbs2(k) : k \in 0..(MaxCases + 2)}
    \cup {<<65535, 32767>>, <<0, 32768>>, <<65535, 65535>>}

RECURSIVE CeilLog2(_)
CeilLog2(s) == IF s <= 1 THEN 0 ELSE 1 + CeilLog2((s + 1) \div 2)

\* C23: the k-th call of emit_case emits the leaf of index k, the range
\* stack is empty after emit_default, and the comparison tree takes every
\* unsigned 32-bit selector v to case v when v < n and to the default when
\* v >= n, with at most ceil(log2(n + 1)) comparisons on the way.
C23_BinarySearch ==
  (calc.op = "br_table" /\ calc.out.started) =>
    /\ ~calc.out.failed
    /\ \A k \in 1..Len(calc.out.leaf) : calc.out.leaf[k] = k - 1
    /\ calc.done =>
         /\ calc.out.stack = <<>>
         /\ Len(calc.out.ret) = calc.in + 1
         /\ \A v \in Selectors :
              LET r == Route(calc.out, 1, v, FALSE, 0)
                  n == calc.in
              IN /\ r.call = IF ULt(v, Limbs2(n)) THEN v[1] + 1 ELSE n + 1
                 /\ r.cmps <= CeilLog2(n + 1)

C23_Witness ==
  /\ calc.op = "br_table" /\ calc.done /\ calc.in = 3
  /\ \E k \in 1..Len(calc.out.code) : calc.out.code[k].op = "multipop"
  /\ \E k \in 1..Len(calc.out.ret) : calc.out.code[calc.out.ret[k]].op = "jae"
  /\ Route(calc.out, 1, <<65535, 65535>>, FALSE, 0).cmps = 2

\* ---------------------------------------------------------------------
\* x86_64.hpp: the code of one function, from emit_prologue to finalize.
\* An emitted instruction is its name, its immediate and its length in
\* bytes.
MaxBody == 4       \* opcodes of a function body, without the final end

Ins(i, n, b) == [i |-> i, n |-> n, b |-> b]
RECURSIVE Bytes(_)
Bytes(code) == IF code = <<>> THEN 0 ELSE Head(code).b + Bytes(Tail(code))
RECURSIVE Sum(_)
Sum(s) == IF s = <<>> THEN 0 ELSE Head(s) + Sum(Tail(s))

max_prologue_size == 21
max_epilogue_size == 10
instruction_size_ratio_upper_bound == 79

\* emit_prologue that starts to use the loop above 16 locals.
emit_prologue_loop_above_16(count) ==
  <<Ins("push_rbp", 0, 1), Ins("mov_rsp_rbp", 0, 3)>>
    \o (IF count > 0
        THEN <<Ins("xor_rax", 0, 3)>>
               \o (IF count > 16
                   THEN <<Ins("mov_ecx", count, 5), Ins("push_rax", 0, 1),
                          Ins("dec_ecx", 0, 2), Ins("jnz", 2, 6)>>
                   ELSE [k \in 1..count |-> Ins("push_rax", 0, 1)])
        ELSE <<>>)

\* emit_prologue, after the allocation: pushq %rbp; movq %rsp, %rbp; and
\* for count locals xor %rax, %rax and either count times pushq %rax or
\* mov $count, %ecx; loop: pushq %rax; dec %ecx; jnz loop.  The immediate
\* of jnz is the number of instructions it goes back.
emit_prologue(count) ==
  <<Ins("push_rbp", 0, 1), Ins("mov_rsp_rbp", 0, 3)>>
    \o (IF count > 0
        THEN <<Ins("xor_rax", 0, 3)>>
               \o (IF count > 14
                   THEN <<Ins("mov_ecx", count, 5), Ins("push_rax", 0, 1),
                          Ins("dec_ecx", 0, 2), Ins("jnz", 2, 6)>>
                   ELSE [k \in 1..count |-> Ins("push_rax", 0, 1)])
        ELSE <<>>)

\* _local_count & 0xF0000000u, for a count below 2^31.
HighLocalBits(count) == count \div 268435456 # 0

\* emit_epilogue that leaves the locals on the stack.
emit_epilogue_keeps_locals(count, return_count) ==
  LET head == IF return_count # 0 THEN <<Ins("pop_rax", 0, 1)>> ELSE <<>>
  IN IF HighLocalBits(count)
     THEN [unimplemented |-> TRUE, code |-> head]
     ELSE [unimplemented |-> FALSE,
           code |-> head \o <<Ins("pop_rbp", 0, 1), Ins("ret", 0, 1)>>]

\* emit_epilogue: pop %rax if the function returns a value; unimplemented()
\* if the local count has one of its four high bits set; emit_multipop of
\* the locals; popq %rbp; retq.
emit_epilogue(count, return_count) ==
  LET head == IF return_count # 0 THEN <<Ins("pop_rax", 0, 1)>> ELSE <<>>
      mp == IF HighLocalBits(count) THEN <<>> ELSE emit_multipop(count, FALSE)
  IN IF HighLocalBits(count)
     THEN [unimplemented |-> TRUE, code |-> head]
     ELSE [unimplemented |-> FALSE,
           code |-> head \o [k \in 1..Len(mp) |-> Ins("add_rsp", mp[k].n, 7)]
                         \o <<Ins("pop_rbp", 0, 1), Ins("ret", 0, 1)>>]

\* The frame while the emitted code runs.  depth counts the 8-byte slots
\* below the saved frame pointer, zeros says that every slot pushed by the
\* prologue holds 0.  A loop that still has more than LoopSteps rounds to
\* go is run in one step: each round pushes one slot and decrements %ecx.
LoopSteps == 16
Frame(depth) == [depth |-> depth, zeros |-> TRUE, rax |-> 1, ecx |-> 0,
                 saved |-> depth >= 0, rbp_ok |-> FALSE, returned |-> FALSE]
StepFrame(ins, pc, m) ==
  CASE ins.i = "push_rbp" ->
         [pc |-> pc + 1, m |-> [m EXCEPT !.saved = TRUE, !.depth = 0]]
    [] ins.i = "mov_rsp_rbp" ->
         [pc |-> pc + 1, m |-> [m EXCEPT !.rbp_ok = m.depth = 0]]
    [] ins.i = "xor_rax" -> [pc |-> pc + 1, m |-> [m EXCEPT !.rax = 0]]
    [] ins.i = "mov_ecx" -> [pc |-> pc + 1, m |-> [m EXCEPT !.ecx = ins.n]]
    [] ins.i = "push_rax" ->
         [pc |-> pc + 1,
          m |-> [m EXCEPT !.depth = @ + 1, !.zeros = @ /\ m.rax = 0]]
    [] ins.i = "dec_ecx" -> [pc |-> pc + 1, m |-> [m EXCEPT !.ecx = @ - 1]]
    [] ins.i = "jnz" ->
         IF m.ecx = 0 THEN [pc |-> pc + 1, m |-> m]
         ELSE IF m.ecx > LoopSteps
              THEN [pc |-> pc + 1,
                    m |-> [m EXCEPT !.depth = @ + m.ecx, !.ecx = 0,
                                    !.zeros = @ /\ m.rax = 0]]
              ELSE [pc |-> pc - ins.n, m |-> m]
    [] ins.i = "pop_rax" -> [pc |-> pc + 1, m |-> [m EXCEPT !.depth = @ - 1]]
    [] ins.i = "add_rsp" ->
         [pc |-> pc + 1, m |-> [m EXCEPT !.depth = @ - ins.n \div 8]]
    [] ins.i = "pop_rbp" ->
         [pc |-> pc + 1,
          m |-> [m EXCEPT !.rbp_ok = m.depth = 0, !.depth = @ - 1]]
    [] OTHER -> [pc |-> 0, m |-> [m EXCEPT !.returned = m.depth = -1]]
RECURSIVE RunFrame(_, _, _)
RunFrame(code, pc, m) ==
  IF pc < 1 \/ pc > Len(code) THEN m
  ELSE CHOOSE out \in {RunFrame(code, s.pc, s.m) : s \in
                         {StepFrame(code[pc], pc, m)}} : TRUE

\* Opcodes of a body: bytes in the module (with the shortest immediate),
\* bytes emitted, operand types popped and pushed.  "any" is the operand
\* of drop.
BodyOp(name, wasm, emitted, pops, pushes) == [name |-> name, wasm |-> wasm, emitted |-> emitted, pops |-> pops, pushes |-> pushes]
BodyOps ==
  {BodyOp("unreachable", 1, 16, <<>>, <<>>),
   BodyOp("drop", 1, 1, <<"any">>, <<>>),
   BodyOp("i64_const", 2, 11, <<>>, <<"i64">>),
   BodyOp("f64_const", 9, 11, <<>>, <<"f64">>),
   BodyOp("i64_trunc_u_f32", 1, 101, <<"f32">>, <<"i64">>),
   BodyOp("i64_trunc_u_f64", 1, 109, <<"f64">>, <<"i64">>),
   BodyOp("f32_convert_u_i64", 1, 55, <<"i64">>, <<"f32">>),
   BodyOp("f64_convert_u_i64", 1, 49, <<"i64">>, <<"f64">>),
   BodyOp("f64_reinterpret_i64", 1, 0, <<"i64">>, <<"f64">>)}

\* Validation of a body, opcode by opcode: the operand types on the stack
\* and whether the code is unreachable (then a missing operand has any
\* type).
Applies(p, o) ==
  \/ o.pops = <<>>
  \/ p.stk = <<>> /\ p.unr
  \/ p.stk # <<>> /\ o.pops[1] \in {"any", p.stk[Len(p.stk)]}
Extend(p, o) ==
  [ops |-> Append(p.ops, o),
   unr |-> p.unr \/ o.name = "unreachable",
   stk |-> IF o.name = "unreachable" THEN <<>>
           ELSE (IF o.pops = <<>> \/ p.stk = <<>> THEN p.stk
                 ELSE SubSeq(p.stk, 1, Len(p.stk) - 1)) \o o.pushes]
RECURSIVE ValidPrefixes(_)
ValidPrefixes(k) ==
  IF k = 0 THEN {[ops |-> <<>>, unr |-> FALSE, stk |-> <<>>]}
  ELSE LET prev == ValidPrefixes(k - 1)
       IN prev \cup {Extend(p, o) : <<p, o>> \in
                       {<<q, r>> \in prev \X BodyOps :
                          Len(q.ops) = k - 1 /\ Applies(q, r)}}
Ends(p, return_count) ==
  IF return_count = 0 THEN p.stk = <<>>
  ELSE p.stk = <<"i64">> \/ (p.stk = <<>> /\ p.unr)

\* Bytes of a LEB128 count, and of a body: the vector of local entries,
\* the opcodes, and the final end.
LebBytes(n) ==
  IF n < 128 THEN 1 ELSE IF n < 16384 THEN 2 ELSE IF n < 2097152 THEN 3
  ELSE IF n < 268435456 THEN 4 ELSE 5
BodySize(locals, ops) ==
  LebBytes(Len(locals))
    + Sum([k \in 1..Len(locals) |-> LebBytes(locals[k]) + 1])
    + Sum([k \in 1..Len(ops) |-> ops[k].wasm]) + 1

LocalEntries ==
  {<<>>, <<1>>, <<7, 7>>, <<14>>, <<15>>, <<10, 6>>, <<40>>,
   <<268435455>>, <<268435456>>, <<MaxInt32>>}

NoFunction == [stage |-> "parsed", a |-> <<>>, code_start |-> 0,
               code_end |-> 0, code |-> 0, emitted |-> 0, top |-> 0,
               prologue |-> <<>>, epilogue |-> <<>>, passed |-> FALSE]
FunctionInputs ==
  {[op |-> "function",
    in |-> [locals |-> l, return_count |-> r, body |-> p.ops],
    done |-> FALSE, out |-> NoFunction] :
     <<l, r, p>> \in
       {<<l, r, p>> \in LocalEntries \X {0, 1} \X ValidPrefixes(MaxBody) :
          /\ Ends(p, r)
          /\ Len(p.ops) <= 1 \/ l \in {<<>>, <<15>>}}}

ArenaTops == {0, 64}

\* emit_prologue: the reservation for the body and the prologue.
Prologue ==
  /\ calc.op = "function" /\ calc.out.stage = "parsed"
  /\ \E top \in ArenaTops :
       LET a0 == [phase |-> "writable", starts |-> 1, ends |-> 0,
                  top |-> top, fault |-> FALSE]
           code_size == max_prologue_size
                          + BodySize(calc.in.locals, calc.in.body)
                              * instruction_size_ratio_upper_bound
                          + max_epilogue_size
           pro == emit_prologue(Sum(calc.in.locals))
       IN calc' = [calc EXCEPT
                    !.out = [NoFunction EXCEPT
                       !.stage = "body",
                       !.a = allocator(a0, "alloc", code_size),
                       !.code_start = top,
                       !.code_end = top + code_size,
                       !.code = top + Bytes(pro),
                       !.prologue = pro,
                       !.passed = top + Bytes(pro) > top + code_size]]
  /\ UNCHANGED slots
  /\ UNCHANGED <<dvars, depthVars, stackVars, upcallVars, writerVars>>

\* The parser hands the next opcode of the body to its emit function.
Body ==
  /\ calc.op = "function" /\ calc.out.stage = "body"
  /\ calc.out.emitted < Len(calc.in.body)
  /\ LET o == calc.in.body[calc.out.emitted + 1]
     IN calc' = [calc EXCEPT
                  !.out.emitted = @ + 1,
                  !.out.code = @ + o.emitted,
                  !.out.passed = @ \/ calc.out.code + o.emitted
                                        > calc.out.code_end]
  /\ UNCHANGED slots
  /\ UNCHANGED <<dvars, depthVars, stackVars, upcallVars, writerVars>>

\* emit_epilogue at the end of the body.
Epilogue ==
  /\ calc.op = "function" /\ calc.out.stage = "body"
  /\ calc.out.emitted = Len(calc.in.body)
  /\ LET epi == emit_epilogue(Sum(calc.in.locals), calc.in.return_count)
     IN calc' = [calc EXCEPT
                  !.done = epi.unimplemented,
                  !.out.stage = IF epi.unimplemented THEN "unimplemented"
                                ELSE "epilogue",
                  !.out.epilogue = epi.code,
                  !.out.code = @ + Bytes(epi.code),
                  !.out.passed = @ \/ calc.out.code + Bytes(epi.code)
                                        > calc.out.code_end]
  /\ UNCHANGED slots
  /\ UNCHANGED <<dvars, depthVars, stackVars, upcallVars, writerVars>>

\* finalize: the allocator takes back what lies behind the write cursor.
FinalizeBody ==
  /\ calc.op = "function" /\ calc.out.stage = "epilogue"
  /\ calc' = [calc EXCEPT
               !.done = TRUE,
               !.out.stage = "final",
               !.out.top = calc.out.a.top,
               !.out.a = allocator(calc.out.a, "reclaim",
                                   calc.out.code_end - calc.out.code)]
  /\ UNCHANGED slots
  /\ UNCHANGED <<dvars, depthVars, stackVars, upcallVars, writerVars>>

LocalCount == Sum(calc.in.locals)
PushesOf(code) == Cardinality({k \in 1..Len(code) : code[k].i = "push_rax"})
HasLoop(code) == \E k \in 1..Len(code) : code[k].i = "jnz"

\* What the prologue does for LocalCount locals, and its shape.
PrologueRight ==
  LET m == RunFrame(calc.out.prologue, 1, Frame(-1))
      n == LocalCount
  IN /\ m.depth = n /\ m.zeros /\ m.rbp_ok
     /\ n = 0 => PushesOf(calc.out.prologue) = 0
     /\ (1 <= n /\ n <= 14) =>
          PushesOf(calc.out.prologue) = n /\ ~HasLoop(calc.out.prologue)
     /\ n > 14 => HasLoop(calc.out.prologue)
\* What the epilogue does with the locals and the result on the stack.
EpilogueRight ==
  LET m == RunFrame(calc.out.epilogue, 1,
                    Frame(LocalCount + calc.in.return_count))
  IN m.rbp_ok /\ m.returned

\* C25 as stated: for every total local count the prologue pushes that
\* many zero slots (unrolled up to 14, a loop above, nothing for 0) and
\* the epilogue removes them before it restores the frame pointer and
\* returns.
C25_LocalsFrame ==
  (calc.op = "function" /\ calc.out.stage # "parsed") =>
    /\ PrologueRight
    /\ calc.out.stage \notin {"body"} =>
         calc.out.stage # "unimplemented" /\ EpilogueRight

\* C25, amended: the same for every total local count below 2^28; for a
\* count of 2^28 or more the prologue is as stated and emit_epilogue
\* raises unimplemented instead of emitting the removal.
C25_LocalsFrameBelowLimit ==
  (calc.op = "function" /\ calc.out.stage # "parsed") =>
    /\ PrologueRight
    /\ calc.out.stage \notin {"body"} =>
         IF LocalCount < 268435456
         THEN calc.out.stage # "unimplemented" /\ EpilogueRight
         ELSE calc.out.stage = "unimplemented"

C25_Witness ==
  /\ calc.op = "function" /\ calc.out.stage = "final"
  /\ LocalCount = 268435455 /\ calc.in.return_count = 1
  /\ EpilogueRight

\* C22: for a type-valid body the write cursor never passes the end of
\* the reservation of 21 + 79 * size + 10 bytes, the prologue is at most
\* 21 and the epilogue at most 10 bytes, and finalize gives back exactly
\* the bytes from the cursor to the end of the reservation, which is the
\* end of the latest allocation.
C22_ReservationHolds ==
  (calc.op = "function" /\ calc.out.stage # "parsed") =>
    /\ calc.out.code_end - calc.out.code_start
         = 21 + 79 * BodySize(calc.in.locals, calc.in.body) + 10
    /\ ~calc.out.passed /\ calc.out.code <= calc.out.code_end
    /\ Bytes(calc.out.prologue) <= max_prologue_size
    /\ Bytes(calc.out.epilogue) <= max_epilogue_size
    /\ calc.out.stage = "final" =>
         /\ calc.out.top = calc.out.code_end
         /\ calc.out.a.top = calc.out.code
         /\ ~calc.out.a.fault

C22_Witness ==
  /\ calc.op = "function" /\ calc.out.stage = "final"
  /\ Len(calc.in.body) = MaxBody
  /\ Cardinality({k \in 1..MaxBody :
                    calc.in.body[k].name = "i64_trunc_u_f64"}) = 2
  /\ calc.out.code - calc.out.code_start
       - Bytes(calc.out.prologue) - Bytes(calc.out.epilogue) > 2 * 109
  /\ calc.out.a.top = calc.out.code /\ calc.out.code < calc.out.code_end

ArithInit ==
  /\ calc \in RemInputs \cup CallIndirectInputs \cup BrTableInputs
               \cup FunctionInputs
  /\ slots = <<>>

ArithNext ==
  \/ RemS
  \/ CallIndirectTarget
  \/ EmitBrTable
  \/ EmitCase
  \/ EmitDefault
  \/ Prologue
  \/ Body
  \/ Epilogue
  \/ FinalizeBody

\* ---------------------------------------------------------------------
\* x86_64.hpp: the operand stack while the emitted code runs.  A slot is
\* the Wasm type of its value and hi, 1 when the upper 32 bits of the
\* 8-byte slot are not all zero.
MaxSlots == 3      \* operands on the stack

\* What the code of an opcode does to the slot on top: the type it needs
\* there ("" if it pops nothing), the type it leaves ("" if it pushes
\* nothing), and the upper half of the slot it leaves: "zero" when the
\* code writes all 8 bytes from a 32-bit register or clears the upper 4,
\* "value" when it writes all 8 bytes of a 64-bit value, "keep" when it
\* writes only the low 4 bytes (mov %eax, (%rsp); movss %xmm0, (%rsp)) or
\* emits nothing.
SlotOp(name, pops, pushes, hi) == [name |-> name, pops |-> pops, pushes |-> pushes, hi |-> hi]
SlotOps ==
  {SlotOp("i32_const", "", "i32", "zero"),
   SlotOp("f32_const", "", "f32", "zero"),
   SlotOp("i64_const", "", "i64", "value"),
   SlotOp("f64_const", "", "f64", "value"),
   SlotOp("drop", "any", "", "zero"),
   SlotOp("i32_load", "i32", "i32", "zero"),
   SlotOp("i32_wrap_i64", "i64", "i32", "zero"),
   SlotOp("i32_trunc_s_f32", "f32", "i32", "keep"),
   SlotOp("i32_trunc_u_f32", "f32", "i32", "keep"),
   SlotOp("i32_trunc_s_f64", "f64", "i32", "zero"),
   SlotOp("i32_trunc_u_f64", "f64", "i32", "zero"),
   SlotOp("i64_extend_u_i32", "i32", "i64", "keep"),
   SlotOp("f32_convert_s_i64", "i64", "f32", "keep"),
   SlotOp("f32_convert_u_i64", "i64", "f32", "zero"),
   SlotOp("f32_demote_f64", "f64", "f32", "keep"),
   SlotOp("f64_promote_f32", "f32", "f64", "value"),
   SlotOp("i32_reinterpret_f32", "f32", "i32", "keep"),
   SlotOp("f32_reinterpret_i32", "i32", "f32", "keep"),
   SlotOp("i64_reinterpret_f64", "f64", "i64", "keep"),
   SlotOp("f64_reinterpret_i64", "i64", "f64", "keep")}

SlotsInit == calc = NoCalc /\ slots = <<>>

\* The code of one opcode runs.  calc keeps the opcode and the slot it
\* found on top; for a load, out says whether the address computed from
\* the popped 8 bytes is memory base + offset + the 32-bit index.
ExecSlotOp ==
  /\ \E o \in SlotOps :
       LET n == Len(slots)
           top == IF n = 0 THEN [t |-> "", hi |-> 0] ELSE slots[n]
           rest == IF o.pops = "" THEN slots ELSE SubSeq(slots, 1, n - 1)
           his == CASE o.hi = "zero" -> {0}
                    [] o.hi = "keep" -> {top.hi}
                    [] OTHER -> {0, 1}
       IN /\ o.pops # "" => n > 0 /\ o.pops \in {"any", top.t}
          /\ Len(rest) + (IF o.pushes = "" THEN 0 ELSE 1) <= MaxSlots
          /\ \E h \in his :
               slots' = IF o.pushes = "" THEN rest
                        ELSE Append(rest, [t |-> o.pushes, hi |-> h])
          /\ calc' = [op |-> o.name, in |-> <<top>>, done |-> TRUE,
                      out |-> IF o.name = "i32_load"
                              THEN <<top.hi = 0>> ELSE <<>>]
  /\ UNCHANGED <<dvars, depthVars, stackVars, upcallVars, writerVars>>

SlotsNext == ExecSlotOp

\* C27: at every opcode boundary every slot that holds an i32 has its
\* upper 32 bits zero, so a load computes its address from the 32-bit
\* index.
C27_I32SlotsZeroExtended ==
  /\ \A k \in 1..Len(slots) : slots[k].t = "i32" => slots[k].hi = 0
  /\ calc.op = "i32_load" => calc.out = <<TRUE>>

Init == DriverInit /\ DepthIdle /\ StackIdle /\ UpcallIdle
        /\ WriterInit /\ LowerIdle
Next == DriverNext
Spec == Init /\ [][Next]_vars

\* The instance with its options: set_option, then invocations.
SpecOption == Init /\ [][OptionNext]_vars
SpecCreate == Init /\ [][CreateNext]_vars
InitSlots == DriverInit /\ DepthIdle /\ StackIdle /\ UpcallIdle
             /\ WriterInit /\ SlotsInit
SpecSlots == InitSlots /\ [][SlotsNext]_vars

InitArith == DriverInit /\ DepthIdle /\ StackIdle /\ UpcallIdle
             /\ WriterInit /\ ArithInit
SpecArith == InitArith /\ [][ArithNext]_vars

\* The emitted call sequences, run on their own.
InitDepth == DriverInit /\ DepthInit /\ StackIdle /\ UpcallIdle
             /\ WriterInit /\ LowerIdle
SpecDepth == InitDepth /\ [][DepthNext]_vars

\* The lowerings of the opcodes, run one after the other.
InitStack == DriverInit /\ DepthIdle /\ StackInit /\ UpcallIdle
             /\ WriterInit /\ LowerIdle
SpecStack == InitStack /\ [][StackNext]_vars

\* The writer from its construction to its destruction.
SpecWriter == Init /\ [][WriterNext]_vars

\* A store, run on every pair of operands.
InitStore == DriverInit /\ DepthIdle /\ StackIdle /\ StoreInit
             /\ WriterInit /\ LowerIdle
SpecStore == InitStore /\ [][Store]_vars

\* The transitions into host code, run one after the other.
InitUpcall == DriverInit /\ DepthIdle /\ StackIdle /\ UpcallInit
              /\ WriterInit /\ LowerIdle
SpecUpcall == InitUpcall /\ [][UpcallNext]_vars
====
